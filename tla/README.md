# TLA+ development of the jamm backend

The backend is a NestJS server (`src/src/`): HTTP controllers and socket.io gateways over MongoDB (mongoose), Redis and
object storage. This directory holds TLA+ models of its stateful parts, the TLC configurations that check them, and
TLAPS proofs about them. Source paths below are relative to the repository's `src/` directory of TypeScript files.

## How the program runs, and what makes it hard

One process runs one event loop. A handler runs alone until its next `await`; everything it read before may have changed
when it goes on. Three kinds of state outlive a handler:

- **memory of one process**: meeting rooms with their whiteboards, live battles, rate limiter buckets, finalization tasks;
- **MongoDB documents**, read into a mongoose object, changed, and saved: a save writes the changed paths only;
- **Redis keys**, shared by the replicas: presence counters, sessions.

Timers (`setTimeout`, `setInterval`) and the disconnect of a socket run between any two steps. So the models take one
action per handler, cut at each `await` that really gives the loop back, with the suspended handler's local variables
kept in a variable. (An `await` of something already computed is resumed before any other event, and is not cut.)

## Inventory

| component | state | operations | what is hard | what makes it correct |
|---|---|---|---|---|
| meeting rooms, `video/video.gateway.ts` | `rooms`: peers, knock queue, creator socket, timers | create, reclaim, join, rehydrate a chat call, knock, approve, reject, privacy, kick, leave, disconnect, two timers | handlers keep a room object across awaits; reconnects race timers | control stays with the creator's account, one seat per account, capacity, knocks served, seats vacated |
| whiteboard drawing, same file | strokes, undo and redo stacks of a tab or page | stroke start, append, remove, update, clear, undo, redo, reset | history limits, strokes that grow in place, ids that return | the stacks are one timeline |
| whiteboard tabs and library, same file | tabs, active tab, PDF library | pdf-add, library-add, tab-remove, activate, viewport | tier lookup awaited before the limits are applied | limits hold, active tab exists |
| recordings, `video/video-recordings.service.ts` and its cron | one document per session, chunks and final file in storage | create, upload chunk, finish, stale pickup, finalize, cleanup | crash between storage and database, stale document saved, retries | no accepted chunk lost, link posted once and leads to a file, sessions settle |
| arena battles, `arena/arena.gateway.ts`, `arena.service.ts` | `activeBattles`, battle histories | create, join, leave, start, answer, next, end, save history, delete test | answers marked after an await, joins before the user is known, several ways to end | points within the questions that have come, history stored once |
| arena tests, sentence builders, memory games, same service | documents, share links, results and attempts, best results | create, update, delete, make and drop links, submit, play | deletions in three calls, compare and store | nothing is left of what was deleted, ranks do not fall |
| flashcards, same service | decks, folders, members, progress by card | create, edit, delete, join, leave, review | a list stored whole, progress deleted before its deck | members put only themselves in or out, a deleted deck leaves no progress |
| presence, `presence/` | Redis counter and TTL keys per user | connect, disconnect, ping | decrement and delete are two calls; disconnect during connect | a user is online exactly while connected |
| premium, `premium/` | promo codes, redemptions, user's premium dates, cache | redeem, expiry cron, status | several awaited writes, cache | a redemption is recorded if it is counted |
| meets, `meets/` | one document per meet | create, list, delete | find, delete, save in three calls | one active meet per creator |
| chats, `chats/` | chats, members, admins, messages, preview, end-to-end keys, call | groups, join by link, leave, send, edit, delete, keys, requests to join a call | permissions read from a copy; concurrent saves of one document | members and admins agree, edits are authorised, deleted messages stay unquoted |
| courses, `courses/` | course, lessons, members, homework, attendance | enrol, approve, attend, submit, grade | one large document saved by many requests | only members attend, grades in range |
| posts `posts/`, articles `articles/` | documents with counters, engagement and comment rows, images in storage | create, edit, delete, like, view, comment, reply | counters beside rows, images cleaned after the save | counters equal what they count, images that are shown stay |
| users, auth | accounts, tokens, Redis sessions | register, verify, reset, login | tokens read, then saved; one session per account | tokens used once |
| admin, app settings, link preview, livekit, storage, mail, push, uploads | none or one document | queries and outside calls | - | not modelled, see below |

Interaction: the video gateway asks premium (tier limits), meets (lesson binding), courses (attendance) and chats (call
rehydration); recordings post into chats (saved messages); the arena gateway keeps its battles in the arena service,
which `deleteTest` also changes. Everything else meets in the database.

The hazards of this code - each at its line, with the property that watches it or the reason none does - are listed in
`PROJECT.json`.

## Modules

| module | models | composed with |
|---|---|---|
| `VideoRoom` | the meeting rooms | |
| `VideoRoom_proofs` | inductive invariant and theorems about it | extends `VideoRoom` |
| `Timeline` | what undo and redo promise | |
| `DrawingHistory` | the strokes and stacks of one drawing | `INSTANCE Timeline` with a refinement mapping |
| `Whiteboard` | a room's control, tabs, page states and PDF library | |
| `Whiteboard_proofs` | inductive invariants and theorems about both, refinement proof | extends `Whiteboard`, `DrawingHistory` |
| `ArenaBattle` | live battles, history, `deleteTest` | |
| `Flashcards` | one deck in one folder, its members, learners' progress | |
| `Arena_proofs` | inductive invariants and theorems about both | extends `ArenaBattle`, `Flashcards` |
| `Exercises` | tests or sentence builders, links, results; memory games | |
| `Exercises_proofs` | inductive invariant and theorems about it | extends `Exercises` |
| `Chats` | one chat: group, messages, keys, calls | |
| `Chats_proofs` | inductive invariant and theorems about it | extends `Chats` |
| `Publication` | one post or article | |
| `Publication_proofs` | inductive invariant and theorems about it | extends `Publication` |
| `Recording` | one recording session, its cron and storage | |
| `Recording_proofs` | inductive invariant and theorems about it | extends `Recording` |
| `Course` | one course in its four collections under concurrent requests | |
| `Course_proofs` | inductive invariant and theorems about it | extends `Course` |
| `MC...` | constants, constraints and symmetry for TLC | extend the module they instantiate |

### VideoRoom

`rooms` maps a name to a RoomInfo *object* and `room` maps an object to its contents, because a suspended handler and a
timer keep the object while the map may give its name to another one. `chan` is the socket.io channel of a name, `conn`
the sockets the server knows, `call` the handlers suspended at `getPremiumStatus`, at the chat lookup, or at the lesson
binding. The lesson binding is cached (`bound`), so a handler suspends there only the first time. The actions are the
handlers: `ReclaimRoom`, `CreateStart`/`CreateFinish`/`CreatedBinding`, `JoinRoom`/`JoinFinish`,
`JoinMissing`/`Rehydrate`, `ApproveKnock`, `RejectKnock`, `SetRoomPrivacy`, `LeaveRoom`, `KickPeer`, `Disconnect`, and
the timers `GraceExpire` (7 s) and `CreatorExpire` (14 s, so after the grace timer of the same socket). An object
nothing refers to is garbage and may be allocated again (`Live`). Not kept: titles, display names, attendance marks,
signalling relays, and the whiteboard, which is a module of its own.

### Timeline and DrawingHistory

`Timeline` is the promise: versions on a line, a present one, undo and redo walk, an edit replaces the future, only the
present grows, and a window of versions is remembered. `DrawingHistory` has the two stacks the code keeps. The mapping
reads the past from the undo stack and the future backwards from the redo stack. It needs `HistoryFits`: the trimming
inside undo and redo would otherwise drop a version. `StrokeRemove` and `StrokeUpdate` address a stroke by its place,
which by `UniqueIds` is what the code's search by id does. The handlers are synchronous, so the 100 ms tab lock is never
found taken.

### Whiteboard

The whiteboard of one room, seen through the sockets of the account that created it, since nobody else controls it.
`host` is `room.creatorSocketId`, `seated` what `room.peers` has of these sockets. The moves of control (`CreateRoom`,
`Seat`, `JoinRoom`, `Leave`) are `VideoRoom`'s, reduced to what the whiteboard feels: `replaceExistingPeerSocket`
hands its owner on, `removePeerFromRoom` resets it. Guests keep the room open, so it is never deleted. A page of a PDF
tab is a page number: what is drawn on it is `DrawingHistory`'s concern. All handlers are synchronous but `pdf-add`
and `pdf-library-add`, which await the tier of the user (`AskTier`) and go on (`PdfAdd`, `LibraryAdd`, `Refuse`) with
whatever the whiteboard is by then, without asking again whether the socket still controls it. The library is trimmed
by the times clients gave its items, so any order is open (`Kept`). Two simplifications: clients are taken not to give
a PDF tab the id `board`, which `sanitizeWhiteboardTabId` (492) would let them, and an item of the library goes by the id of
its tab, which is what `pdf-add` falls back on when the client names no library item (1997). `Paged` drops the lowest
page number beyond the cap, be it the page just made.

### ArenaBattle

Battles are numbered in the order of the map. Messages of a socket are handled while `handleConnection` still awaits its
user. `known` are the sockets for which it has gone on (`HandleConnection`); `UserOf` is the account it gives them. A join
before that is made under `guest_<socket>`, so a participant is an `Entry`: a socket, and whether it is listed under its
account or as a guest (`EntryOf`). `JoinBattle` looks for the id as the code does (`SameId`), and so one socket may be
listed twice in a battle; leaving, disconnecting and answering find its first entry (`IsFirst`). Handlers that read the id
of an unknown user throw, so they ask for `known`. `SubmitAnswer` is the handler up to `await getTestByIdInternal`;
`MarkAnswer` is the rest, which scores against the question that is current by then and may advance or end the battle.
`saving` counts the `saveBattleHistory` calls that await their lookup and their save. `DeleteTest...` are the three
awaited steps of `deleteTest`.

A client that is listed twice can answer a question, leave (which removes its first entry) and answer again, and both
answers may be marked against one question. `PointsOfQuestions` is what holds all the same.

### Flashcards

One deck, one folder, both of one creator, and one card that stands for all of them: its name is the edition of the
deck, since every update gives all cards new ids. Each action is one awaited database call. `members` counts how often
a user is in the array, because joining pushes and leaving filters. A save that replaces an array is refused if another
one raised the version in between (`fresh`, `Raising`); `updateMany` raises nothing, so leaving a deck may undo what
joining or leaving its folder did at the same time (`members` in `raced`). `Reviewed` is the SuperMemo-2 rule in
hundredths; `Merged` stores the fields the holder changed.

### Exercises

Tests and sentence builders are stored alike, and `kind` says where they are not: an attempt at a builder comes through
a link that persists results and knows it, so dropping the link drops its attempts (`DropLinkResults`); a solo battle
asks for its link twice, never whether it is one to this test, and does not keep it. Documents, links and results have
identities that are used once. The best results of the memory games are rows of their own, read, compared and stored
(`Play`, `PlaySave`).

### Chats

One chat, a group or private. `Edit` computes the members and admins to store from the document it loaded, `EditSave`
stores them; the permission of the caller is checked in the first. `last` is the message whose text is the preview:
sending and erasing find it and store it in separate calls. The preview is a `Text`: which message it was taken from, and
after how many edits. `RewriteSave` changes a message and leaves the chat's `lastMessage` as it was, as `editMessage` does,
so a preview may show words that were edited since; `stale` remembers such messages until their text is taken anew, and
`PreviewFollows` allows them and nothing else. Joining pushes one member, leaving and editing replace both
arrays and compare the version. `ask` are the requests to join a call, which end with it (`Dropped`). `raced` records
that sendings and deletions overlapped, in which case the preview is whatever was stored last.

### Publication

Posts and articles have the same handlers but where `kind` is asked: a post's images are an array, which a save replaces
under a version check; an article has a cover and a markdown object in storage with the images of its text. Likes and
views are rows beside counters that are incremented, comments rows beside a counter that is incremented by an addition
and stored as a computed total by a deletion. `raced` names what overlapping requests have written: of those the code
promises nothing, and the properties leave them out by name, each with the reason in its comment. Clients submit any
addresses, and `DeleteUpload` deletes any image, used or not, at any time: `deleteUploadedImage` asks for premium and the
prefix of the key only, and `validatePostImages` not whether an image is still stored. `held` are uploads no publication
has used yet, `stray` images that were so deleted, or submitted when neither shown nor held. Of those nothing is promised;
`LiveImagesKept` is about the clean-ups of the service's own edits and deletions.

In these four modules `Cut` ends a request between any two of its calls: a failing call, or the end of the process.
What a failed call leaves is what the calls before it stored.

### Recording

One session document `db`, the chunk objects `raw`, the final object `file`. `up` are uploads (stored, then pushed to the
document), `finish` a `finishSession` between load and save, `task` a finalization with the document it loaded, one step
per awaited call. `Written` is what a mongoose save writes; `Conflict` is its version check, which only guards a save that
replaces the array. `TaskError` is a failing service, or a crash, at any await. The clean-up (`CleanupStart`) may begin at
any time, whatever is under way. `SourceKeptUntilFinal` ends where a final file is stored: the chunks are deleted before
the save that puts it on record, as in the code.

### Course

`db` is the course document and its member, lesson and homework rows. `req` holds the requests under way. Each walks the same
pipeline: `Begin`, `FindCourse`, three parallel `FindRows` (`findById`, `hydrateCourseCollections`), then the body of
the handler on its own `copy`, then `SaveCourse`, three parallel `DeleteStale`, three parallel `Upsert`
(`persistCourseCollections`). `course.save()` is a no-op that `attachCourseRuntimeHelpers` adds, so nothing compares
versions. Loading is the same for every operation, so the operation is chosen when the copy is changed, which is after
every other await of the handler. Views, notes and reviews store only their own fields (`StoreDirectly`), deletion
removes the four parts in parallel (`Drop`). Entries of an array that are found by user are a set. A lesson's place is
`order`; after loading it is its place in the sorted array, with ties open, since the age of a row is not kept. `used`
are the generated ids, `approved` and `shown` remember who was ever an approved member and which lessons ever came
first. A request that fails, or a process that ends, stops between any two calls (`Fail`). `Upsert` is one step for each
collection; `bulkWrite` stores row by row, and no property compares two rows while a request is storing.

What overlapping requests do to each other is the code's: the later store wins, lesson by lesson and member by member.
The properties state what survives that (each stored row is right in itself) and what a request that overlaps no other
may rely on (`SoloRequestStored`). `ManualMarkKept` is what a comment promises and the overwriting breaks.

## Runs

| run | instance | shows |
|---|---|---|
| `video_seats` | 2 sockets of the creator, 2 of a guest, 1 room name, 1 object, 2 suspended handlers | `OnlyCreatorControls`, `OneSeatPerUser`, `OpenDoorHasNoQueue`, `AdmittedWithinLimit`, `TimersOnlyForGone`, `NoUninvitedGuest`, `DepartedStopHearing` |
| `video_live` | 1 socket each, 1 name, 2 objects, 2 handlers | `SeatVacated`, `RoomForgotten` (liveness) |
| `whiteboard` | 2 sockets of the creator, 3 ids, 3 files of 2 sizes, 2 tiers, 2 adds under way | `LimitsHold`, `UntouchedWithoutHost` |
| `drawing` | 3 ids, 2 strokes, 2 points, 2 history entries | the refinement `ImplementsTimeline`, `UniqueIds`, `HistoryFits` |
| `arena` | a socket of the host and one of a player, each listed up to twice, 1 battle, 2 questions, 2 late answers | `PointsOfQuestions`, `HistoryOnce`, `FinishedIsRemoved` (liveness) |
| `flashcards` | the creator and 2 others, 2 editions, 3 reviews, 2 requests | `MembershipOwn`, `NothingLearnedLeft` |
| `exercises` | 2 documents, 2 links, 1 result, 2 players, 2 scores, 2 times, 2 requests | `NothingLeft`, `RankNeverFalls` |
| `chats` | 3 users (one refuses invitations), 6 admin lists, 2 messages with 2 edits each, 2 requests to join, 2 requests | `AdminsAreMembers`, `EditsAuthorised`, `PreviewFollows`, `DeletedNotQuoted`, `ApprovedByCallCreator` |
| `publication` | 2 users, 3 comments, 2 images, 2 requests | `EngagementCounted`, `CommentsCounted`, `LiveImagesKept`, `DeletedStaysDeleted` |
| `recording` | 2 chunks, 1 upload at a time, 1 process, 1 mishap, 2 finishes, 1 cron retry | `SourceKeptUntilFinal`, `LinkPostedOnce`, `LinkLeadsToFile`, `Settles` (liveness) |
| `course` | 2 overlapping requests, 2 users and the author, 3 lesson ids, nine starting courses | `OneEntryPerUser`, `PassedMeansReached`, `RatingOfReviews`, `TraceNeedsAccess`, `SoloRequestStored` |
| `course_manual_mark` | violation | a manual mark overwritten by a meeting's mark (`courses.service.ts:2742`) |

Each module's `TypeOK` was checked on its instance while it was written. The runs do not list it; for `VideoRoom`,
`DrawingHistory`, `Whiteboard`, `Chats`, `ArenaBattle`, `Flashcards`, `Exercises`, `Recording` and `Publication` it is a
theorem (`DrawingTypeOK` and `CardsTypeOK` in two of them, which share a proof module with another specification).

**Bounds.** Two sockets per account are enough for a replacement and its race, two suspended handlers for two handlers
that overtake each other, two accounts for a creator and someone let in, a limit of 2 to fill a room. One object in
`video_seats` means that a second room is created only when the first is garbage; `video_live` has two, for handlers
that hold an old object. Two questions give a first and a last one. Two chunks give one that is in the final file and one
that is late; one mishap hits each await in turn. `MaxVer` stops uploads after a finalization was saved once, and
`MaxIndex` stops `next_question`. An arena client is listed twice through one socket; a second socket of its account
would only list it once more, and the theorems are about any number. Histories of two entries make every trimming happen.
In `course` each scenario starts from a course the program could have stored (`ScenariosAssumption`), whose rows name
only accounts that have a way in at the start (`HistoryAssumption`, where the history variables begin), and mixes the
operations that touch the same rows; two requests overlap in every way their calls allow, and starting with a watched
lesson, a failed attempt or a returned submission stands for the requests that came before. Operations of different
groups meet only through the whole-copy store, which is the same for all of them.

`whiteboard` has files that fit the small tier alone, together only the large one, and one that only the large one takes;
tabs, pages and items each go beyond their limit by one. `chats` has three users so that one can be removed by another
while a third is an admin; `publication` three comments for a comment, its reply and one beside them; `flashcards` two
learners, two editions for a card that is no longer in the deck; `exercises` one document and one link more than the
limits. Two requests overlap in every way in all four. Five MC modules add a `CONSTRAINT`: `OneConcern` follows a
behaviour while it concerns one group of fields that are not read together (members, messages, keys and the call of a
chat; likes, comments and images of a publication, and so on), and, where it mentions `raced`, until requests have
written the same fields at once, after which the properties say nothing. What is left out are products of
behaviours whose parts do not read each other. Deadlock is checked in `drawing`; the other systems may stop, when every
socket has gone or every bound is used up.

**Fairness.** Only what the event loop does by itself is fair: a settled promise resumes its handler, an armed
`setTimeout` fires, the cron ticks every 15 s. No request of a client is ever assumed. In `VideoRoom` the timers are weakly
fair one by one: a timer stays enabled until it fires or is cleared. The modules of the database services state no
fairness: their requests may end at any await, and nothing in these services retries or finishes what one of them left.

**One replica.** `recording` checks `LinkPostedOnce` with one process. `finalizationTasks` is a map of one process and
the cron runs on every replica: with two, a session can be finalized twice at once and its link posted twice.

**What the code does not keep.** Modelling showed a number of outcomes that the properties leave room for. Two of them
are reached in `ArenaBattle` against a comment: a client that joins before its user is known and once more afterwards is
listed twice, where `arena.gateway.ts:153` says "Prevent duplicate joining"; and a socket that plays in two lobbies, or
is listed twice, stays listed after its disconnect, since one entry is removed (87), where line 79 says "If client was
in a waiting lobby, remove them." The others no doc, comment or test excludes: two `create-room` requests of one creator
both find no other room of his (`video.gateway.ts:1545`); a knock stays when its socket left while the handler awaited
(1668); two joins that find no chat call both rehydrate it (1339); a page state just made is the one trimmed (960); a
chunk acknowledged while the session is finalized is dropped from the list (`video-recordings.service.ts:676`); two late
answers of a client listed twice are marked against one question (`arena.gateway.ts:228`); the preview of a chat keeps
the words of a message that was edited (`chats.service.ts:1395`); a post shows an image its author had deleted by its
address (`posts.service.ts:290`); an edit of a message that lands after its deletion stores its text (hidden, and not
quoted, `chats.service.ts:1427`); two requests find no private chat of a pair and both create one (573); a like counted
twice or not at all when one user sends it twice at once (`posts.service.ts:587`).

## Proofs

`VideoRoom_proofs`: for all constants that satisfy `ConstantsAssumption` and `NoRoomAssumption`, `Spec` implies `TypeOK`,
`OnlyCreatorControls`, `OneSeatPerUser`, `OpenDoorHasNoQueue` and `TimersOnlyForGone`. The inductive invariant `IInv` is
`TypeOK`, the four properties stated for every allocated object (`RoomSafe`), and `Linked`: the map and the suspended
handlers refer only to allocated objects, a suspended create or rehydration belongs to an account, and a suspended
reclaim to the account that created its room. Without the last part a resumed reclaim could seat a stranger twice.
`OneSeatPerUser` has to speak of the knock queue as well as of the seats, since an entry of the queue becomes a seat when
it is approved. The operators that change one room (`ReplaceSeat`, `Admit`, `RemovePeer`) preserve `RoomSafe` by lemmas of
their own, so each action's proof says only which operators it applies to which object; the temporal step is PTL.

The action properties `NoUninvitedGuest`, `AdmittedWithinLimit` and `DepartedStopHearing` follow from what a step may do
to each object (`Bounded`: `ObjectStep` for its seats and queue, `NameStep` for the channel of a name, `CallStep` for the
suspended handlers), proved handler by handler. They also need `Named`, inductive together with `IInv`: an object goes by
the name that the map, or the handler holding the object, knows it by. Without it a resumed handler could seat a socket
in one room and have it join, or leave, the channel of another.

`Whiteboard_proofs` about `DrawingHistory`: for all positive limits, `DrawingSpec` implies `DrawingTypeOK`, `UniqueIds`,
`HistoryFits` and `ImplementsTimeline`. `HistoryFits` (undo and redo together stay within one history) makes the
trimming in undo and redo void, which is what lets each step map to a step of `Timeline`.

`Whiteboard_proofs` about `Whiteboard`: for all constants that satisfy `ConstantsAssumption`, `Spec` implies `TypeOK`,
`ActiveTabThere`, `LimitsHold` and `UntouchedWithoutHost`, for any number of adds under way. The inductive invariant
`Inv` is `TypeOK` and `Fits` of the whiteboard; nothing need be said about the requests, since both adds look at the
limits after their await. `PagedFits` needs the least page to exist, which is well-foundedness of the naturals.
`LibraryFits`, the last part of `LimitsHold`, is a sum over the library's items. Its laws need an induction over the
items, and the theorems of induction at hand take the statement as a parameter, so it is made by hand (`EveryNat`,
`EveryPart`): were there a number of items for which the sum is not what `Weighs` says, there would be a least one, and
taking an item away leads below it.

`Course_proofs`: for all constants that satisfy `ConstantsAssumption`, `ScenariosAssumption` and `HistoryAssumption`,
`Spec` implies `OneEntryPerUser`, `PassedMeansReached`, `RatingOfReviews`, `TraceNeedsAccess` and `SoloRequestStored`,
however many requests overlap. Nothing orders the calls of two requests, so the argument cannot follow any of them:
`IInv` says that every row is right in itself, in the database *and* in every copy a request holds (`CourseOK`,
`DocOK`), which no mixture of right rows can break. `LessonReplaced` and `AssignmentReplaced` reduce an operation to the
one row it changes, `PutKeepsOne` to the one entry, and `SaveOK` carries the changed copy through renumbering.

`Trail`, for `TraceNeedsAccess`, is of the same kind: every row, wherever it is, names only accounts that had a way in.
That a handler lets nobody else in needs more of the copy it looks at (`Remembered`): its approved members and its first
lesson have been in the database. A copy is that only until its handler changes it - a lesson that moves up in a copy
that is never stored was never the preview - so `RequestTraced` asks it of requests that are not storing yet, which are
the ones that decide. `PlacedFirst` is why the loaded lesson in the first place was stored as the first one, however ties
are broken. `Alone`, for `SoloRequestStored`, says how far a request that overlaps no other has come (`Progressed`): which
collections have lost the rows the copy lacks, and which are already the copy.

`Chats_proofs`: for all constants that satisfy `ConstantsAssumption`, `Spec` implies `TypeOK`, `AdminsAreMembers`,
`EditsAuthorised`, `PreviewFollows`, `DeletedNotQuoted` and `ApprovedByCallCreator`, for any number of requests under
way. The inductive invariant has a part for each group of fields. `Group` says of every edit that can still be stored
(its version is fresh) that its author may make it of the chat *as it is*: storing members or admins raises the version,
which voids all others. `Calls` says that a request to join is asked once and that an answer to one still on the list is
the call creator's, `Wiped` that a deleted message keeps no flag that has it decrypted, `Unsent` that messages are
numbered as they are created and unedited until then, and `Previews` that, as long as nothing has overlapped, one request at most is about the
messages, and the preview is wrong only between its two calls. `NatNewest` is the greatest member of a finite set of
numbers, from well-foundedness.

`Arena_proofs` about `ArenaBattle`: for all constants that satisfy `ConstantsAssumption`, `Spec` implies `TypeOK`,
`PointsOfQuestions` and `HistoryOnce`, for any number of sockets and of answers being marked. The points alone are not
inductive, since answers under way will raise them. `PointsSound` therefore counts these in: an entry's points, and ten for
each of its answers under way (`Pending`), stay within ten for each question it has had the chance to answer (`Chances`:
those that have passed, and the current one once it counts as answered), and answers are under way only in a battle that
has begun, so that nobody leaves and joins anew meanwhile. `Inv` also counts the lookups, saves and documents of a battle's history together (`Records`),
at most one and none before the end. What a step may do to a battle is one relation, `Follows`; `BattlesKeep` turns it
into the invariant, so a handler's proof only shows that what it writes follows what was there.

`Exercises_proofs`: for all constants that satisfy `ConstantsAssumption`, `Spec` implies `TypeOK`, `NothingLeft` and
`RankNeverFalls`. The inductive invariant `ExercisesInv` says that every attempt came through a link of its own document
(`Anchored`), and of the time before anything has been raced for (`Calm`): nothing is added while something is removed
(`Apart`), what is being added to is there (`Alive`), a deletion has left nothing of the collections it has passed
(`Swept`), nothing is of a document that is gone (`OfLiving`), and an attempt through a withdrawn link is about to be
removed (`Covered`). For `RankNeverFalls`, `Better` adds that a game about to be stored is the only one of its player
and better than the stored one; `RankKept` then compares those ahead of him before and after as finite sets.

`Arena_proofs` about `Flashcards`: for all constants that satisfy `CardsAssumption`, `CardsSpec` implies `CardsTypeOK`,
`NothingLearnedLeft` and `MembershipOwn`. `Learned` says, before a review and a deletion have overlapped, that there is
no progress where a deletion has passed and that a deck being reviewed is there. `Own` says, before requests have
overlapped in the ways the versions do not keep apart, that a copy of the members which can still be stored is the
current array without the one who leaves, and that who joins is no member. What a step of a request may do is one
relation, `StepOf`, which the invariant and the action property both follow from.

Left to TLC: liveness (`SeatVacated`, `RoomForgotten`, `FinishedIsRemoved`, `Settles`), which is beyond the prover, and
`TypeOK` of `Course`, whose rating is a mean over a set of reviews and needs the same induction made by hand.

## Plan

1. Proofs: `TypeOK` of `Course`.
2. `Presence` (device counter and keys in Redis, connects and disconnects racing), `Premium` (promo codes redeemed in
   several calls) and the sessions and tokens of `auth/`, as small modules.
3. The grades of a course (`buildLessonGradeRow`, `buildCourseOverview`) as operators with their bounds.

## Not modelled

Presence, premium, scheduled meets, users, and authentication are not modelled yet. What they are exposed to: the
decrement of the last device and the deletion of its keys are two calls, so a device that connects in between is
deleted with them (`redis-presence.service.ts:104`); a promo code is counted as used before the redemption and the user
are written (`premium.service.ts:226`).

Of modelled components: the signalling relays, cursors of a whiteboard (sent in batches by a timer that knows the name of
the room only) and attendance marks of the gateway; in `Flashcards` the limit on decks, and titles and slugs of folders;
in `Exercises` the marking of answers; in `Chats` the creation of private chats and saved messages, read marks, push
settings; in `Publication` edits of comments, daily limits and slugs; in `Course` creation, replies, the grading views
and the deletion of files. Lists, searches and formatted views are left out everywhere.

Administration, application settings, link preview, livekit tokens, mail, push, upload validation, encryption and the
Redis adapter keep no state of their own or only pass data to outside services. The rate limiters only refuse events,
and a refused event is one that does not happen. The signalling relays change nothing on the server.
