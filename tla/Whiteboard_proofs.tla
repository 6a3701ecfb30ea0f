-------------------------- MODULE Whiteboard_proofs --------------------------
(***************************************************************************)
(* Proofs about the whiteboard of a room.  Of Whiteboard, for any sockets, *)
(* files, tiers and limits: its type invariant, that the tab shown is      *)
(* there, the limits on tabs, page states and the library, and that nobody *)
(* touches the whiteboard of a room without its creator.  What the library *)
(* weighs is a fold over a set; its lemmas come by an induction over the   *)
(* parts of a finite set.  Of DrawingHistory, for any limits and stroke    *)
(* ids: its type invariant, the bound on the two stacks, the uniqueness of *)
(* stroke ids, and that the stacks implement Timeline.                     *)
(***************************************************************************)
EXTENDS Whiteboard, DrawingHistory, FiniteSetTheorems, SequenceTheorems, WellFoundedInduction, TLAPS

\* The limits of a library.
Stored(items) ==
    /\ IsFiniteSet(items)
    /\ \A i, j \in items : i.id = j.id \/ i.file = j.file => i = j
    /\ \E tier \in Tiers : Bytes(items) <= BytesLimit[tier]

\* The limits of a whiteboard.
Fits(w) ==
    /\ w.tab \in {Board} \cup DOMAIN w.pages
    /\ \E tier \in Tiers : Cardinality(DOMAIN w.pages) <= PdfTabLimit[tier]
    /\ \A t \in DOMAIN w.pages : Cardinality(w.pages[t]) <= MaxPages
    /\ Stored(w.library)

\* The inductive invariant.
Inv == TypeOK /\ Fits(wb)

-----------------------------------------------------------------------------
(* Induction over numbers and over the parts of a finite set *)

LEMMA NatLeast ==
    ASSUME NEW S \in SUBSET Nat, S # {}
    PROVE  \E x \in S : \A y \in S : x <= y
<1> DEFINE R == OpToRel(<, Nat)
<1>1. IsWellFoundedOn(R, Nat) BY NatLessThanWellFounded
<1>2. \A x, y \in Nat : <<x, y>> \notin R => ~(x < y) BY Zenon DEF OpToRel
<1> HIDE DEF R
<1>3. PICK x \in S : \A y \in S : <<y, x>> \notin R BY <1>1, WFMin
<1>4. \A y \in S : ~(y < x)
  <2>1. S \subseteq Nat OBVIOUS
  <2> QED BY <1>2, <1>3, <2>1, Zenon
<1> QED BY <1>4

\* A set of naturals that holds 0 and every successor holds them all.
LEMMA EveryNat ==
    ASSUME NEW N \in SUBSET Nat, 0 \in N, \A n \in N : n + 1 \in N
    PROVE  N = Nat
<1> SUFFICES ASSUME Nat \ N # {} PROVE FALSE OBVIOUS
<1>1. PICK m \in Nat \ N : \A y \in Nat \ N : m <= y BY NatLeast
<1>2. m # 0 /\ m - 1 \in Nat BY <1>1
<1>3. m - 1 \in N BY <1>1, <1>2
<1>4. (m - 1) + 1 = m BY <1>1
<1> QED BY <1>1, <1>3, <1>4

\* What a finite set's part has when those short of one element have it, every part has.
LEMMA EveryPart ==
    ASSUME NEW S, IsFiniteSet(S), NEW G \in SUBSET SUBSET S,
           \A s \in SUBSET S : (\A x \in s : s \ {x} \in G) => s \in G
    PROVE  G = SUBSET S
<1> DEFINE N == {n \in Nat : \A s \in SUBSET S : Cardinality(s) <= n => s \in G}
<1>1. \A s \in SUBSET S : IsFiniteSet(s) /\ Cardinality(s) \in Nat
  BY FS_Subset, FS_CardinalityType
<1>2. 0 \in N
  <2>1. \A s \in SUBSET S : Cardinality(s) <= 0 => s = {} BY <1>1, FS_EmptySet
  <2> QED BY <2>1
<1>3. ASSUME NEW n \in N PROVE n + 1 \in N
  <2> SUFFICES ASSUME NEW s \in SUBSET S, Cardinality(s) <= n + 1 PROVE s \in G
    OBVIOUS
  <2>1. ASSUME NEW x \in s PROVE s \ {x} \in G
    <3>1. Cardinality(s \ {x}) = Cardinality(s) - 1 BY <1>1, FS_RemoveElement
    <3>2. Cardinality(s \ {x}) <= n BY <3>1, <1>1
    <3> QED BY <3>2
  <2> QED BY <2>1
<1>4. N = Nat
  <2> HIDE DEF N
  <2>1. N \in SUBSET Nat BY DEF N
  <2> QED BY <1>2, <1>3, <2>1, EveryNat
<1>5. ASSUME NEW s \in SUBSET S PROVE s \in G
  <2>1. Cardinality(s) \in N BY <1>1, <1>4
  <2> QED BY <2>1, <1>1
<1> QED BY <1>5

-----------------------------------------------------------------------------
(* What the files of a library weigh *)

\* What a library weighs, given what g says of the smaller ones.
Weighed(g, s) ==
    IF s = {} THEN 0
    ELSE SizeOf[(CHOOSE x \in s : TRUE).file] + g[s \ {CHOOSE x \in s : TRUE}]

\* g weighs every part of S.
Weighs(g, S) == g = [s \in SUBSET S |-> Weighed(g, s)]

LEMMA BytesWeighs ==
    ASSUME NEW S
    PROVE  Bytes(S) = (CHOOSE g : Weighs(g, S))[S]
BY DEF Bytes, MapThenSumSet, MapThenFoldSet, Weighs, Weighed

LEMMA SizeNat ==
    ASSUME NEW i \in Item
    PROVE  SizeOf[i.file] \in Nat
BY ConstantsAssumption DEF Item

LEMMA SomeWeighs ==
    ASSUME NEW S \in SUBSET Item, IsFiniteSet(S)
    PROVE  \E g : Weighs(g, S)
<1> DEFINE Upto(g, n) == \A s \in SUBSET S : Cardinality(s) <= n => g[s] = Weighed(g, s)
<1> DEFINE N == {n \in Nat : \E g : Upto(g, n)}
<1>1. \A s \in SUBSET S : IsFiniteSet(s) /\ Cardinality(s) \in Nat
  BY FS_Subset, FS_CardinalityType
<1>2. 0 \in N
  <2> DEFINE none == [s \in SUBSET S |-> 0]
  <2>1. \A s \in SUBSET S : Cardinality(s) <= 0 => s = {} BY <1>1, FS_EmptySet
  <2>2. Upto(none, 0) BY <2>1 DEF Weighed
  <2> QED BY <2>2
<1>3. ASSUME NEW n \in N PROVE n + 1 \in N
  <2>1. PICK g : Upto(g, n) OBVIOUS
  <2> DEFINE h == [s \in SUBSET S |-> Weighed(g, s)]
  <2>2. \A s \in SUBSET S : Cardinality(s) <= n => h[s] = g[s] BY <2>1
  <2>3. ASSUME NEW s \in SUBSET S, Cardinality(s) <= n + 1 PROVE h[s] = Weighed(h, s)
    <3>1. CASE s = {} BY <3>1 DEF Weighed
    <3>2. CASE s # {}
      <4> DEFINE x == CHOOSE x \in s : TRUE
      <4>1. x \in s BY <3>2
      <4>2. Cardinality(s \ {x}) = Cardinality(s) - 1 BY <1>1, <4>1, FS_RemoveElement
      <4>3. Cardinality(s \ {x}) <= n BY <4>2, <1>1, <2>3
      <4>4. h[s \ {x}] = g[s \ {x}] BY <4>3, <2>2
      <4> QED BY <3>2, <4>4 DEF Weighed
    <3> QED BY <3>1, <3>2
  <2>4. Upto(h, n + 1) BY <2>3
  <2> HIDE DEF h
  <2> QED BY <2>4
<1>4. N = Nat
  <2> HIDE DEF N
  <2>1. N \in SUBSET Nat BY DEF N
  <2> QED BY <1>2, <1>3, <2>1, EveryNat
<1>5. Cardinality(S) \in N BY <1>1, <1>4
<1>6. PICK g : Upto(g, Cardinality(S)) BY <1>5
<1> DEFINE f == [s \in SUBSET S |-> g[s]]
<1>7. \A s \in SUBSET S : Cardinality(s) <= Cardinality(S) BY FS_Subset
<1>8. ASSUME NEW s \in SUBSET S PROVE f[s] = Weighed(f, s)
  <2>1. f[s] = Weighed(g, s) BY <1>6, <1>7
  <2>2. s \ {CHOOSE x \in s : TRUE} \in SUBSET S OBVIOUS
  <2> QED BY <2>1, <2>2 DEF Weighed
<1>9. Weighs(f, S) BY <1>8 DEF Weighs
<1> HIDE DEF f
<1> QED BY <1>9

LEMMA WeighsStep ==
    ASSUME NEW S, NEW g, Weighs(g, S), NEW s \in SUBSET S
    PROVE  /\ s = {} => g[s] = 0
           /\ s # {} => \E x \in s : g[s] = SizeOf[x.file] + g[s \ {x}]
<1>1. g[s] = Weighed(g, s) BY DEF Weighs
<1>2. s # {} => (CHOOSE x \in s : TRUE) \in s OBVIOUS
<1> QED BY <1>1, <1>2 DEF Weighed

LEMMA WeightsNat ==
    ASSUME NEW S \in SUBSET Item, IsFiniteSet(S), NEW g, Weighs(g, S)
    PROVE  \A s \in SUBSET S : g[s] \in Nat
<1> DEFINE G == {s \in SUBSET S : g[s] \in Nat}
<1>1. ASSUME NEW s \in SUBSET S, \A x \in s : s \ {x} \in G PROVE s \in G
  <2>1. CASE s = {} BY <2>1, WeighsStep
  <2>2. CASE s # {}
    <3>1. PICK x \in s : g[s] = SizeOf[x.file] + g[s \ {x}] BY <2>2, WeighsStep
    <3>2. g[s \ {x}] \in Nat BY <1>1
    <3>3. SizeOf[x.file] \in Nat BY SizeNat
    <3> QED BY <3>1, <3>2, <3>3
  <2> QED BY <2>1, <2>2
<1>2. G = SUBSET S
  <2> HIDE DEF G
  <2>1. G \in SUBSET SUBSET S BY DEF G
  <2> QED BY <1>1, <2>1, EveryPart
<1> QED BY <1>2

\* Whichever item goes on the scales first.
LEMMA AnyFirst ==
    ASSUME NEW S \in SUBSET Item, IsFiniteSet(S), NEW g, Weighs(g, S)
    PROVE  \A s \in SUBSET S : \A y \in s : g[s] = SizeOf[y.file] + g[s \ {y}]
<1> DEFINE G == {s \in SUBSET S : \A y \in s : g[s] = SizeOf[y.file] + g[s \ {y}]}
<1>1. ASSUME NEW s \in SUBSET S, \A x \in s : s \ {x} \in G PROVE s \in G
  <2> SUFFICES ASSUME NEW y \in s PROVE g[s] = SizeOf[y.file] + g[s \ {y}]
    OBVIOUS
  <2>1. PICK x \in s : g[s] = SizeOf[x.file] + g[s \ {x}] BY WeighsStep
  <2>2. CASE x = y BY <2>1, <2>2
  <2>3. CASE x # y
    <3> DEFINE rest == s \ {x, y}
    <3>1. (s \ {x}) \ {y} = rest /\ (s \ {y}) \ {x} = rest OBVIOUS
    <3>2. g[s \ {x}] = SizeOf[y.file] + g[rest] BY <1>1, <2>3, <3>1
    <3>3. g[s \ {y}] = SizeOf[x.file] + g[rest] BY <1>1, <2>3, <3>1
    <3>4. g[rest] \in Nat BY WeightsNat
    <3>5. SizeOf[x.file] \in Nat /\ SizeOf[y.file] \in Nat BY SizeNat
    <3> QED BY <2>1, <3>2, <3>3, <3>4, <3>5
  <2> QED BY <2>2, <2>3
<1>2. G = SUBSET S
  <2> HIDE DEF G
  <2>1. G \in SUBSET SUBSET S BY DEF G
  <2> QED BY <1>1, <2>1, EveryPart
<1> QED BY <1>2

\* A part weighs no more than the whole that it is weighed as a part of.
LEMMA PartLighter ==
    ASSUME NEW S \in SUBSET Item, IsFiniteSet(S), NEW g, Weighs(g, S), NEW T \in SUBSET S
    PROVE  g[T] <= g[S]
<1> DEFINE G == {s \in SUBSET S : T \subseteq s => g[T] <= g[s]}
<1>1. ASSUME NEW s \in SUBSET S, \A x \in s : s \ {x} \in G PROVE s \in G
  <2> SUFFICES ASSUME T \subseteq s PROVE g[T] <= g[s] OBVIOUS
  <2>1. g[T] \in Nat /\ g[s] \in Nat BY WeightsNat
  <2>2. CASE T = s BY <2>1, <2>2
  <2>3. CASE T # s
    <3>1. PICK y \in s : y \notin T BY <2>3
    <3>2. g[s] = SizeOf[y.file] + g[s \ {y}] BY AnyFirst
    <3>3. T \subseteq s \ {y} BY <3>1
    <3>4. g[T] <= g[s \ {y}] BY <1>1, <3>3
    <3>5. g[s \ {y}] \in Nat BY WeightsNat
    <3>6. SizeOf[y.file] \in Nat BY SizeNat
    <3> QED BY <2>1, <3>2, <3>4, <3>5, <3>6
  <2> QED BY <2>2, <2>3
<1>2. G = SUBSET S
  <2> HIDE DEF G
  <2>1. G \in SUBSET SUBSET S BY DEF G
  <2> QED BY <1>1, <2>1, EveryPart
<1>3. S \in G BY <1>2
<1> QED BY <1>3

\* The scales do not matter.
LEMMA WeightsAgree ==
    ASSUME NEW S \in SUBSET Item, IsFiniteSet(S), NEW g, Weighs(g, S),
           NEW T \in SUBSET S, NEW h, Weighs(h, T)
    PROVE  h[T] = g[T]
<1> DEFINE G == {t \in SUBSET T : h[t] = g[t]}
<1>1. IsFiniteSet(T) BY FS_Subset
<1>2. ASSUME NEW t \in SUBSET T, \A x \in t : t \ {x} \in G PROVE t \in G
  <2>1. t \in SUBSET S OBVIOUS
  <2>2. CASE t = {} BY <2>1, <2>2, WeighsStep
  <2>3. CASE t # {}
    <3>1. PICK x \in t : h[t] = SizeOf[x.file] + h[t \ {x}] BY <2>3, WeighsStep
    <3>2. g[t] = SizeOf[x.file] + g[t \ {x}] BY <2>1, AnyFirst
    <3>3. h[t \ {x}] = g[t \ {x}] BY <1>2
    <3> QED BY <3>1, <3>2, <3>3
  <2> QED BY <2>2, <2>3
<1>3. G = SUBSET T
  <2> HIDE DEF G
  <2>1. G \in SUBSET SUBSET T BY DEF G
  <2> QED BY <1>1, <1>2, <2>1, EveryPart
<1>4. T \in G BY <1>3
<1> QED BY <1>4

\* Bytes of an empty library, and of a part of one.
LEMMA BytesEmpty == Bytes({}) = 0
<1>1. PICK g : Weighs(g, {}) BY SomeWeighs, FS_EmptySet
<1>2. Weighs(CHOOSE f : Weighs(f, {}), {}) BY <1>1
<1> QED BY <1>2, WeighsStep, BytesWeighs

LEMMA BytesOfPart ==
    ASSUME NEW S \in SUBSET Item, IsFiniteSet(S), NEW T \in SUBSET S
    PROVE  /\ Bytes(T) \in Nat /\ Bytes(S) \in Nat
           /\ Bytes(T) <= Bytes(S)
<1> DEFINE g == CHOOSE f : Weighs(f, S)
<1> DEFINE h == CHOOSE f : Weighs(f, T)
<1>1. IsFiniteSet(T) /\ T \in SUBSET Item BY FS_Subset
<1>2. Weighs(g, S) BY SomeWeighs
<1>3. Weighs(h, T) BY <1>1, SomeWeighs
<1>4. Bytes(S) = g[S] /\ Bytes(T) = h[T] BY BytesWeighs
<1> HIDE DEF g, h
<1>5. h[T] = g[T] BY <1>2, <1>3, WeightsAgree
<1>6. g[T] <= g[S] BY <1>2, PartLighter
<1>7. g[T] \in Nat /\ g[S] \in Nat BY <1>2, WeightsNat
<1> QED BY <1>4, <1>5, <1>6, <1>7

-----------------------------------------------------------------------------
(* Whiteboards *)

LEMMA PagesType ==
    ASSUME NEW w \in WhiteboardState
    PROVE  /\ DOMAIN w.pages \in SUBSET TabIds
           /\ w.pages \in [DOMAIN w.pages -> SUBSET PageNumbers]
BY DEF WhiteboardState

PageStates == UNION {[T -> SUBSET PageNumbers] : T \in SUBSET TabIds}

LEMMA StateFields ==
    WhiteboardState =
      [active : BOOLEAN, owner : Sockets \cup {NoSock}, tab : TabIds \cup {Board},
       pages : PageStates, library : SUBSET Item]
BY DEF WhiteboardState, PageStates

LEMMA BlankFits == Blank \in WhiteboardState /\ Fits(Blank)
<1> DEFINE none == [t \in {} |-> {}]
<1>1. none \in [{} -> SUBSET PageNumbers] /\ DOMAIN none = {} OBVIOUS
<1>2. {} \in SUBSET TabIds /\ {} \in SUBSET Item OBVIOUS
<1>3. Blank \in WhiteboardState
  <2>1. none \in UNION {[T -> SUBSET PageNumbers] : T \in SUBSET TabIds}
    BY <1>1, <1>2
  <2> HIDE DEF none
  <2>2. Blank = [active |-> FALSE, owner |-> NoSock, tab |-> Board, pages |-> none, library |-> {}]
    BY DEF Blank, none
  <2> QED BY <2>1, <2>2, <1>2 DEF WhiteboardState
<1>4. Fits(Blank)
  <2>1. PICK tier \in Tiers : TRUE BY ConstantsAssumption
  <2>2. Cardinality({}) <= PdfTabLimit[tier]
    BY <2>1, FS_EmptySet, ConstantsAssumption
  <2> HIDE DEF none
  <2>3. /\ Blank.pages = none /\ Blank.tab = Board /\ Blank.library = {}
    BY DEF Blank, none
  <2>4. Stored({})
    <3>1. 0 <= BytesLimit[tier] BY <2>1, ConstantsAssumption
    <3>2. IsFiniteSet({}) BY FS_EmptySet
    <3> QED BY <2>1, <3>1, <3>2, BytesEmpty DEF Stored
  <2> QED BY <1>1, <2>1, <2>2, <2>3, <2>4 DEF Fits
<1> QED BY <1>3, <1>4

\* A handler that leaves the tabs, their pages and the library alone.
LEMMA ShowKeeps ==
    ASSUME NEW w \in WhiteboardState, Fits(w),
           NEW v \in WhiteboardState, v.pages = w.pages, v.library = w.library,
           v.tab \in {Board} \cup DOMAIN w.pages
    PROVE  Fits(v)
BY DEF Fits

LEMMA PagedFits ==
    ASSUME NEW P \in SUBSET PageNumbers, NEW p \in PageNumbers, Cardinality(P) <= MaxPages
    PROVE  Paged(P, p) \in SUBSET PageNumbers /\ Cardinality(Paged(P, p)) <= MaxPages
<1> DEFINE all == P \cup {p}
<1>1. IsFiniteSet(PageNumbers) /\ MaxPages \in Nat BY ConstantsAssumption
<1>2. IsFiniteSet(P) /\ IsFiniteSet(all)
  BY <1>1, FS_Subset, FS_AddElement
<1>3. Cardinality(P) \in Nat /\ Cardinality(all) \in Nat /\ Cardinality(all) <= Cardinality(P) + 1
  BY <1>2, FS_CardinalityType, FS_AddElement
<1>4. CASE Cardinality(all) <= MaxPages
  BY <1>4 DEF Paged
<1>5. CASE ~(Cardinality(all) <= MaxPages)
  <2>1. all \subseteq Nat BY ConstantsAssumption
  <2>2. \E x \in all : \A y \in all : x <= y BY <2>1, NatLeast
  <2>3. Min(all) \in all BY <2>2 DEF Min
  <2>4. Cardinality(all \ {Min(all)}) = Cardinality(all) - 1
    BY <2>3, <1>2, FS_RemoveElement
  <2>5. Cardinality(all \ {Min(all)}) <= MaxPages BY <2>4, <1>1, <1>3
  <2>6. Paged(P, p) = all \ {Min(all)} BY <1>5 DEF Paged
  <2> QED BY <2>5, <2>6
<1> QED BY <1>4, <1>5

-----------------------------------------------------------------------------
(* The creator's handlers *)

\* Every handler leaves a whiteboard; those of Control and Answer change nothing else
\* that Inv speaks of but the requests under way.
LEMMA InvOf ==
    ASSUME TypeOK, wb' \in WhiteboardState, Fits(wb'),
           Control \/ (UNCHANGED <<host, seated, joining>> /\ adds' \in [Requests -> Add])
    PROVE  Inv'
BY DEF TypeOK, Inv, Control

LEMMA OwnerKeeps ==
    ASSUME NEW w \in WhiteboardState, Fits(w), NEW o \in Sockets \cup {NoSock}
    PROVE  [w EXCEPT !.owner = o] \in WhiteboardState /\ Fits([w EXCEPT !.owner = o])
<1> DEFINE v == [w EXCEPT !.owner = o]
<1>1. v \in WhiteboardState BY DEF WhiteboardState
<1>2. v.pages = w.pages /\ v.library = w.library /\ v.tab = w.tab BY DEF WhiteboardState
<1>3. v.tab \in {Board} \cup DOMAIN w.pages BY <1>2 DEF Fits
<1> HIDE DEF v
<1>4. Fits(v) BY <1>1, <1>2, <1>3, ShowKeeps
<1> QED BY <1>1, <1>4 DEF v

-----------------------------------------------------------------------------
(* One lemma for the steps that move control, one for each group of handlers *)

LEMMA InheritedKeeps ==
    ASSUME Inv, NEW s \in Sockets
    PROVE  Inherited(s) \in WhiteboardState /\ Fits(Inherited(s))
BY OwnerKeeps DEF Inherited, Inv, TypeOK

LEMMA MovesKeep ==
    ASSUME Inv, NEW s \in Sockets, CreateRoom(s) \/ Seat(s) \/ JoinRoom(s) \/ Leave(s)
    PROVE  Inv'
<1>1. /\ host \in Sockets \cup {NoSock} /\ seated \subseteq Sockets /\ joining \subseteq Sockets
      /\ wb \in WhiteboardState /\ adds \in [Requests -> Add] /\ Fits(wb)
  BY DEF Inv, TypeOK
<1>2. wb' \in {wb, Inherited(s), Blank}
  BY DEF CreateRoom, Seat, JoinRoom, Leave
<1>3. wb' \in WhiteboardState /\ Fits(wb')
  BY <1>1, <1>2, InheritedKeeps, BlankFits
<1>4. host' \in Sockets \cup {NoSock}
  BY <1>1 DEF CreateRoom, Seat, JoinRoom, Leave
<1>5. seated' \subseteq Sockets
  BY <1>1 DEF CreateRoom, Seat, JoinRoom, Leave
<1>6. joining' \subseteq Sockets
  BY <1>1 DEF CreateRoom, Seat, JoinRoom, Leave
<1>7. adds' = adds
  BY DEF CreateRoom, Seat, JoinRoom, Leave
<1> QED BY <1>1, <1>3, <1>4, <1>5, <1>6, <1>7 DEF Inv, TypeOK

LEMMA InvFacts ==
    ASSUME Inv
    PROVE  /\ wb \in WhiteboardState /\ Fits(wb) /\ TypeOK
           /\ wb.active \in BOOLEAN /\ wb.library \in SUBSET Item
           /\ wb.tab \in {Board} \cup PdfTabs
           /\ PdfTabs \in SUBSET TabIds /\ wb.pages \in [PdfTabs -> SUBSET PageNumbers]
<1>1. wb \in WhiteboardState /\ Fits(wb) /\ TypeOK BY DEF Inv, TypeOK
<1>2. wb.active \in BOOLEAN /\ wb.library \in SUBSET Item BY <1>1 DEF WhiteboardState
<1>3. wb.tab \in {Board} \cup PdfTabs BY <1>1 DEF Fits, PdfTabs
<1> QED BY <1>1, <1>2, <1>3, PagesType DEF PdfTabs

\* A handler that shows a tab, or the one shown already, started or stopped.
LEMMA ShowsKeep ==
    ASSUME Inv, NEW s \in Sockets, NEW a \in BOOLEAN, NEW b \in {Board} \cup PdfTabs, Control,
           \/ wb' = [wb EXCEPT !.owner = s]
           \/ wb' = [wb EXCEPT !.active = a, !.owner = s]
           \/ wb' = [wb EXCEPT !.tab = b, !.owner = s]
           \/ wb' = [wb EXCEPT !.active = a, !.tab = b, !.owner = s]
    PROVE  Inv'
<1>1. wb \in WhiteboardState /\ Fits(wb) /\ TypeOK BY DEF Inv, TypeOK
<1>2. b \in TabIds \cup {Board} BY InvFacts
<1>3. wb' \in WhiteboardState BY <1>1, <1>2, StateFields
<1>4. wb'.pages = wb.pages /\ wb'.library = wb.library /\ wb'.tab \in {wb.tab, b}
  BY <1>1, StateFields
<1>5. wb'.tab \in {Board} \cup DOMAIN wb.pages BY <1>4, InvFacts DEF PdfTabs
<1>6. Fits(wb') BY <1>1, <1>3, <1>4, <1>5, ShowKeeps
<1> QED BY <1>1, <1>3, <1>6, InvOf

LEMMA StartStopKeep ==
    ASSUME Inv, NEW s \in Sockets, Start(s) \/ Stop(s)
    PROVE  Inv'
<1>1. PICK a \in BOOLEAN : wb' = [wb EXCEPT !.active = a, !.owner = s]
  BY DEF Start, Stop
<1>2. Control BY DEF Start, Stop
<1>3. wb.tab \in {Board} \cup PdfTabs BY InvFacts
<1> QED BY <1>1, <1>2, <1>3, ShowsKeep

LEMMA TabsShownKeep ==
    ASSUME Inv, NEW s \in Sockets, NEW t \in TabIds \cup {Board},
           TabActivate(s, t) \/ PdfViewport(s, t) \/ BoardZoom(s, t)
    PROVE  Inv'
<1>1. PICK b \in {Board} \cup PdfTabs :
        \/ wb' = [wb EXCEPT !.active = TRUE, !.tab = b, !.owner = s]
        \/ wb' = [wb EXCEPT !.tab = b, !.owner = s]
  BY DEF TabActivate, PdfViewport, BoardZoom
<1>2. Control BY DEF TabActivate, PdfViewport, BoardZoom
<1> QED BY <1>1, <1>2, ShowsKeep

LEMMA DrawsKeep ==
    ASSUME Inv, NEW s \in Sockets, NEW t \in TabIds \cup {Board}, NEW p \in PageNumbers,
           Clear(s, t, p) \/ StrokeChange(s, t, p)
    PROVE  Inv'
<1>1. PICK b \in {Board} \cup PdfTabs :
        \/ wb' = [wb EXCEPT !.owner = s]
        \/ wb' = [wb EXCEPT !.tab = b, !.owner = s]
  BY DEF Clear, StrokeChange, TabOf
<1>2. Control BY DEF Clear, StrokeChange
<1> QED BY <1>1, <1>2, ShowsKeep

LEMMA TabRemoveKeeps ==
    ASSUME Inv, NEW s \in Sockets, NEW t \in TabIds \cup {Board}, TabRemove(s, t)
    PROVE  Inv'
<1> DEFINE T == PdfTabs \ {t}
<1> DEFINE left == [u \in PdfTabs \ {t} |-> wb.pages[u]]
<1> DEFINE b == IF wb.tab = t THEN Board ELSE wb.tab
<1>1. wb \in WhiteboardState /\ Fits(wb) /\ TypeOK BY DEF Inv, TypeOK
<1>2. PdfTabs \in SUBSET TabIds /\ wb.pages \in [PdfTabs -> SUBSET PageNumbers]
  BY <1>1, PagesType DEF PdfTabs
<1>3. wb' = [wb EXCEPT !.pages = left, !.tab = b, !.owner = s] BY DEF TabRemove
<1>4. left \in [T -> SUBSET PageNumbers] /\ DOMAIN left = T BY <1>2
<1>5. b \in T \cup {Board} BY <1>1 DEF Fits, PdfTabs
<1>6. T \in SUBSET TabIds BY <1>2
<1>7. wb.active \in BOOLEAN /\ wb.library \in SUBSET Item BY <1>1 DEF WhiteboardState
<1>8. \E tier \in Tiers : Cardinality(T) <= PdfTabLimit[tier]
  <2>1. PICK tier \in Tiers : Cardinality(PdfTabs) <= PdfTabLimit[tier]
    BY <1>1 DEF Fits, PdfTabs
  <2>2. IsFiniteSet(PdfTabs) BY <1>2, FS_Subset, ConstantsAssumption
  <2>3. /\ Cardinality(PdfTabs) \in Nat /\ Cardinality(T) \in Nat
        /\ Cardinality(T) <= Cardinality(PdfTabs)
    BY <2>2, FS_CardinalityType, FS_Subset
  <2>4. PdfTabLimit[tier] \in Nat BY ConstantsAssumption
  <2> QED BY <2>1, <2>3, <2>4
<1>9. \A u \in T : Cardinality(left[u]) <= MaxPages
  BY <1>1 DEF Fits, PdfTabs
<1>10. Stored(wb.library) BY <1>1 DEF Fits
<1>11. left \in PageStates BY <1>4, <1>6 DEF PageStates
<1>12. b \in TabIds \cup {Board} BY <1>5, <1>6
<1> HIDE DEF left, b, T
<1>13. wb' \in WhiteboardState BY <1>1, <1>3, <1>11, <1>12, StateFields
<1>14. wb'.pages = left /\ wb'.tab = b /\ wb'.library = wb.library
  BY <1>1, <1>3, StateFields
<1>15. Fits(wb') BY <1>14, <1>4, <1>5, <1>8, <1>9, <1>10 DEF Fits
<1>16. Control BY DEF TabRemove
<1> QED BY <1>1, <1>13, <1>15, <1>16, InvOf

LEMMA StrokeStartKeeps ==
    ASSUME Inv, NEW s \in Sockets, NEW t \in TabIds \cup {Board}, NEW p \in PageNumbers,
           StrokeStart(s, t, p)
    PROVE  Inv'
<1> DEFINE paged == [u \in PdfTabs |-> IF u = t THEN Paged(wb.pages[u], p) ELSE wb.pages[u]]
<1>1. wb \in WhiteboardState /\ Fits(wb) /\ TypeOK BY DEF Inv, TypeOK
<1>2. PdfTabs \in SUBSET TabIds /\ wb.pages \in [PdfTabs -> SUBSET PageNumbers]
  BY <1>1, PagesType DEF PdfTabs
<1>3. wb' = [wb EXCEPT !.tab = TabOf(t), !.owner = s, !.pages = paged] BY DEF StrokeStart
<1>4. \A u \in PdfTabs : /\ Paged(wb.pages[u], p) \in SUBSET PageNumbers
                         /\ Cardinality(Paged(wb.pages[u], p)) <= MaxPages
  <2> TAKE u \in PdfTabs
  <2>1. wb.pages[u] \in SUBSET PageNumbers /\ Cardinality(wb.pages[u]) <= MaxPages
    BY <1>1, <1>2 DEF Fits, PdfTabs
  <2> QED BY <2>1, PagedFits
<1>5. paged \in [PdfTabs -> SUBSET PageNumbers] /\ DOMAIN paged = PdfTabs
  BY <1>2, <1>4
<1>6. \A u \in PdfTabs : Cardinality(paged[u]) <= MaxPages
  BY <1>1, <1>4 DEF Fits, PdfTabs
<1>7. TabOf(t) \in PdfTabs \cup {Board} BY DEF TabOf
<1>8. wb.active \in BOOLEAN /\ wb.library \in SUBSET Item BY <1>1 DEF WhiteboardState
<1>9. /\ \E tier \in Tiers : Cardinality(PdfTabs) <= PdfTabLimit[tier]
      /\ Stored(wb.library)
  BY <1>1 DEF Fits, PdfTabs
<1>10. paged \in PageStates BY <1>2, <1>5 DEF PageStates
<1>11. TabOf(t) \in TabIds \cup {Board} BY <1>2, <1>7
<1> HIDE DEF paged
<1>12. wb' \in WhiteboardState BY <1>1, <1>3, <1>10, <1>11, StateFields
<1>13. wb'.pages = paged /\ wb'.tab = TabOf(t) /\ wb'.library = wb.library
  BY <1>1, <1>3, StateFields
<1>14. Fits(wb') BY <1>13, <1>5, <1>6, <1>7, <1>9 DEF Fits
<1>15. Control BY DEF StrokeStart
<1> QED BY <1>1, <1>12, <1>14, <1>15, InvOf

-----------------------------------------------------------------------------
(* Adding a PDF *)

LEMMA AskTierKeeps ==
    ASSUME Inv, NEW r \in Requests, NEW s \in Sockets, NEW op \in {"tab", "library"},
           NEW item \in Item, AskTier(r, s, op, item)
    PROVE  Inv'
<1>1. [op |-> op, sock |-> s, item |-> item] \in Add BY DEF Add
<1>2. adds' \in [Requests -> Add] BY <1>1 DEF AskTier, Inv, TypeOK
<1> QED BY <1>2, InvOf DEF AskTier, Inv, TypeOK

LEMMA AnswerType ==
    ASSUME TypeOK, NEW r \in Requests, Answer(r)
    PROVE  UNCHANGED <<host, seated, joining>> /\ adds' \in [Requests -> Add]
BY DEF TypeOK, Answer, Add

LEMMA UnderWay ==
    ASSUME TypeOK, NEW r \in Requests, adds[r].op # "none"
    PROVE  adds[r].sock \in Sockets /\ adds[r].item \in Item
BY DEF TypeOK, Add, NoAdd

\* What is kept of a library that takes an item: one item of each id and of each
\* file, and no more than the tier that took it allows.
LEMMA KeptStored ==
    ASSUME Inv, NEW item \in Item, NEW kept \in Kept(item), NEW tier \in Tiers,
           LibraryAccepts(item, tier)
    PROVE  kept \in SUBSET Item /\ Stored(kept)
<1> DEFINE all == Others(item) \cup {item}
<1>1. kept \subseteq all BY DEF Kept, kSubset
<1>2. all \subseteq Item BY DEF Others, Inv, TypeOK, WhiteboardState
<1>3. \A i, j \in all : i.id = j.id \/ i.file = j.file => i = j
  BY DEF Others, Inv, Fits, Stored
<1>4. IsFiniteSet(all)
  <2>1. IsFiniteSet(wb.library) BY DEF Inv, Fits, Stored
  <2>2. IsFiniteSet(Others(item)) BY <2>1, FS_Subset DEF Others
  <2> QED BY <2>2, FS_AddElement
<1>5. IsFiniteSet(kept) BY <1>1, <1>4, FS_Subset
<1>6. /\ Bytes(kept) \in Nat /\ Bytes(all) \in Nat
      /\ Bytes(kept) <= Bytes(all)
  <2> HIDE DEF all
  <2> QED BY <1>1, <1>2, <1>4, BytesOfPart
<1>7. Bytes(all) <= BytesLimit[tier] BY DEF LibraryAccepts
<1>8. BytesLimit[tier] \in Nat BY ConstantsAssumption
<1>9. Bytes(kept) <= BytesLimit[tier]
  <2> HIDE DEF all
  <2> QED BY <1>6, <1>7, <1>8
<1> QED BY <1>1, <1>2, <1>3, <1>5, <1>9 DEF Stored

LEMMA LibraryAddKeeps ==
    ASSUME Inv, NEW r \in Requests, NEW tier \in Tiers, LibraryAdd(r, tier)
    PROVE  Inv'
<1>1. wb \in WhiteboardState /\ Fits(wb) /\ TypeOK BY DEF Inv, TypeOK
<1>2. adds[r].sock \in Sockets /\ adds[r].item \in Item
  BY <1>1, UnderWay DEF LibraryAdd
<1>3. PICK kept \in Kept(adds[r].item) :
        wb' = [wb EXCEPT !.library = kept, !.owner = adds[r].sock]
  BY DEF LibraryAdd
<1>5. kept \in SUBSET Item /\ Stored(kept)
  BY <1>2, <1>3, KeptStored DEF LibraryAdd
<1>6. wb' \in WhiteboardState BY <1>1, <1>2, <1>3, <1>5, StateFields
<1>7. wb'.pages = wb.pages /\ wb'.tab = wb.tab /\ wb'.library = kept
  BY <1>1, <1>3, StateFields
<1>8. Fits(wb') BY <1>1, <1>5, <1>7 DEF Fits
<1>9. UNCHANGED <<host, seated, joining>> /\ adds' \in [Requests -> Add]
  BY <1>1, AnswerType DEF LibraryAdd
<1> QED BY <1>1, <1>6, <1>8, <1>9, InvOf

LEMMA PdfAddKeeps ==
    ASSUME Inv, NEW r \in Requests, NEW tier \in Tiers, PdfAdd(r, tier)
    PROVE  Inv'
<1> DEFINE id == adds[r].item.id
<1> DEFINE T == PdfTabs \cup {id}
<1> DEFINE pages == [u \in PdfTabs \cup {id} |-> IF u = id THEN {} ELSE wb.pages[u]]
<1>1. wb \in WhiteboardState /\ Fits(wb) /\ TypeOK BY DEF Inv, TypeOK
<1>2. adds[r].sock \in Sockets /\ adds[r].item \in Item
  BY <1>1, UnderWay DEF PdfAdd
<1>3. PICK kept \in Kept(adds[r].item) :
        wb' = [active |-> TRUE, owner |-> adds[r].sock, tab |-> id, pages |-> pages,
               library |-> kept]
  BY DEF PdfAdd
<1>4. kept \in SUBSET Item /\ Stored(kept)
  BY <1>2, <1>3, KeptStored DEF PdfAdd
<1>5. id \in TabIds BY <1>2 DEF Item
<1>6. PdfTabs \in SUBSET TabIds /\ wb.pages \in [PdfTabs -> SUBSET PageNumbers]
  BY <1>1, PagesType DEF PdfTabs
<1>7. T \in SUBSET TabIds BY <1>5, <1>6
<1>8. pages \in [T -> SUBSET PageNumbers] /\ DOMAIN pages = T BY <1>6
<1>9. Cardinality(T) <= PdfTabLimit[tier]
  <2>1. IsFiniteSet(PdfTabs \ {id})
    BY <1>6, FS_Subset, ConstantsAssumption
  <2>2. T = (PdfTabs \ {id}) \cup {id} OBVIOUS
  <2>3. Cardinality(T) = Cardinality(PdfTabs \ {id}) + 1
    BY <2>1, <2>2, FS_AddElement
  <2>4. Cardinality(PdfTabs \ {id}) \in Nat BY <2>1, FS_CardinalityType
  <2>5. Cardinality(PdfTabs \ {id}) < PdfTabLimit[tier] BY DEF PdfAdd, TabFits
  <2>6. PdfTabLimit[tier] \in Nat BY ConstantsAssumption
  <2> QED BY <2>3, <2>4, <2>5, <2>6
<1>10. \A u \in T : Cardinality(pages[u]) <= MaxPages
  <2>1. Cardinality({}) <= MaxPages BY FS_EmptySet, ConstantsAssumption
  <2> QED BY <2>1, <1>1 DEF Fits, PdfTabs
<1>11. id \in T OBVIOUS
<1> HIDE DEF pages, T, id
<1>12. wb' \in WhiteboardState
  <2>1. pages \in PageStates BY <1>7, <1>8 DEF PageStates
  <2>2. id \in TabIds \cup {Board} BY <1>7, <1>11
  <2> QED BY <2>1, <2>2, <1>2, <1>3, <1>4, StateFields
<1>13. Fits(wb') BY <1>3, <1>4, <1>8, <1>9, <1>10, <1>11 DEF Fits
<1>14. UNCHANGED <<host, seated, joining>> /\ adds' \in [Requests -> Add]
  BY <1>1, AnswerType DEF PdfAdd
<1> QED BY <1>1, <1>12, <1>13, <1>14, InvOf

LEMMA RefuseKeeps ==
    ASSUME Inv, NEW r \in Requests, NEW tier \in Tiers, Refuse(r, tier)
    PROVE  Inv'
<1>1. TypeOK /\ wb \in WhiteboardState /\ Fits(wb) BY DEF Inv, TypeOK
<1>2. wb' = wb BY DEF Refuse
<1>3. UNCHANGED <<host, seated, joining>> /\ adds' \in [Requests -> Add]
  BY <1>1, AnswerType DEF Refuse
<1> QED BY <1>1, <1>2, <1>3, InvOf

-----------------------------------------------------------------------------
(* The theorems *)

LEMMA InitInv == Init => Inv
<1> SUFFICES ASSUME Init PROVE Inv OBVIOUS
<1>1. wb \in WhiteboardState /\ Fits(wb) BY BlankFits DEF Init
<1>2. adds \in [Requests -> Add] BY DEF Init, Add
<1> QED BY <1>1, <1>2 DEF Init, Inv, TypeOK

LEMMA NextInv == Inv /\ [Next]_vars => Inv'
<1> SUFFICES ASSUME Inv, [Next]_vars PROVE Inv' OBVIOUS
<1>1. ASSUME NEW s \in Sockets, CreateRoom(s) \/ Seat(s) \/ JoinRoom(s) \/ Leave(s)
      PROVE  Inv'
  BY <1>1, MovesKeep
<1>2. ASSUME NEW s \in Sockets, Start(s) \/ Stop(s)
      PROVE  Inv'
  BY <1>2, StartStopKeep
<1>3. ASSUME NEW s \in Sockets, NEW t \in TabIds \cup {Board},
             TabActivate(s, t) \/ PdfViewport(s, t) \/ BoardZoom(s, t)
      PROVE  Inv'
  BY <1>3, TabsShownKeep
<1>4. ASSUME NEW s \in Sockets, NEW t \in TabIds \cup {Board}, TabRemove(s, t)
      PROVE  Inv'
  BY <1>4, TabRemoveKeeps
<1>5. ASSUME NEW s \in Sockets, NEW t \in TabIds \cup {Board}, NEW p \in PageNumbers,
             Clear(s, t, p) \/ StrokeStart(s, t, p) \/ StrokeChange(s, t, p)
      PROVE  Inv'
  BY <1>5, DrawsKeep, StrokeStartKeeps
<1>6. ASSUME NEW s \in Sockets, NEW r \in Requests, NEW op \in {"tab", "library"},
             NEW item \in Item, AskTier(r, s, op, item)
      PROVE  Inv'
  BY <1>6, AskTierKeeps
<1>7. ASSUME NEW r \in Requests, NEW tier \in Tiers,
             PdfAdd(r, tier) \/ LibraryAdd(r, tier) \/ Refuse(r, tier)
      PROVE  Inv'
  BY <1>7, PdfAddKeeps, LibraryAddKeeps, RefuseKeeps
<1>8. CASE UNCHANGED vars
  BY <1>8 DEF vars, Inv, TypeOK, Fits
<1> QED BY <1>1, <1>2, <1>3, <1>4, <1>5, <1>6, <1>7, <1>8 DEF Next

\* Whatever the sockets, files, tiers and limits are, every state is well typed.
THEOREM TypeCorrect == Spec => []TypeOK
<1>1. Inv => TypeOK BY DEF Inv
<1> QED BY <1>1, InitInv, NextInv, PTL DEF Spec

\* The tab everyone is shown is the board or one that is open, for any number of adds
\* under way (ActiveTabThere).
THEOREM ShownTabCorrect == Spec => []ActiveTabThere
<1>1. Inv => ActiveTabThere BY DEF Inv, Fits, ActiveTabThere, PdfTabs
<1> QED BY <1>1, InitInv, NextInv, PTL DEF Spec

\* However many adds overlap and whatever tier each was told: the room has no more
\* PDF tabs, nor bytes of files, than some tier buys, no tab more page states than are
\* kept, and the library no two items of one id or one file.
THEOREM LimitsCorrect == Spec => []LimitsHold
<1>1. Inv => LimitsHold
  BY DEF Inv, Fits, Stored, LimitsHold, TabsFit, PagesFit, ItemsDiffer, LibraryFits, PdfTabs
<1> QED BY <1>1, InitInv, NextInv, PTL DEF Spec

\* A step that changes a whiteboard whose room has no host, other than its owner, is
\* the end of an add.
LEMMA OnlyAddsTouch ==
    ASSUME Inv, [Next]_vars, host = NoSock, [wb' EXCEPT !.owner = wb.owner] # wb
    PROVE  \E r \in Requests : adds[r].op # "none" /\ adds'[r].op = "none"
<1>1. wb \in WhiteboardState /\ adds \in [Requests -> Add] BY DEF Inv, TypeOK
<1>2. [wb EXCEPT !.owner = wb.owner] = wb BY <1>1, StateFields
<1>3. \A s \in Sockets : [Inherited(s) EXCEPT !.owner = wb.owner] = wb
  <2> TAKE s \in Sockets
  <2>1. CASE wb.owner = NoSock BY <2>1, <1>2 DEF Inherited
  <2>2. CASE wb.owner # NoSock
    <3>1. Inherited(s) = [wb EXCEPT !.owner = s] BY <2>2 DEF Inherited
    <3>2. [[wb EXCEPT !.owner = s] EXCEPT !.owner = wb.owner] = wb BY <1>1, StateFields
    <3> QED BY <3>1, <3>2
  <2> QED BY <2>1, <2>2
<1>4. \A s \in Sockets : host # s BY ConstantsAssumption
<1>5. \A s \in Sockets : ~CanManage(s) BY <1>4 DEF CanManage
<1>6. wb' # wb BY <1>2
<1>7. \A s \in Sockets : wb' # Inherited(s) BY <1>3
<1>8. \A s \in Sockets : ~(CreateRoom(s) \/ Seat(s) \/ JoinRoom(s) \/ Leave(s))
  BY <1>4, <1>6, <1>7 DEF CreateRoom, Seat, JoinRoom, Leave
<1>9. \A s \in Sockets, t \in TabIds \cup {Board} :
        ~(Start(s) \/ Stop(s) \/ TabActivate(s, t) \/ TabRemove(s, t) \/ PdfViewport(s, t)
            \/ BoardZoom(s, t))
  BY <1>5 DEF Start, Stop, TabActivate, TabRemove, PdfViewport, BoardZoom
<1>10. \A s \in Sockets, t \in TabIds \cup {Board}, p \in PageNumbers :
         ~(Clear(s, t, p) \/ StrokeStart(s, t, p) \/ StrokeChange(s, t, p))
  BY <1>5 DEF Clear, StrokeStart, StrokeChange
<1>11. \A r \in Requests, s \in Sockets, op \in {"tab", "library"}, item \in Item :
         ~AskTier(r, s, op, item)
  BY <1>5 DEF AskTier
<1>12. PICK r \in Requests, tier \in Tiers :
         PdfAdd(r, tier) \/ LibraryAdd(r, tier) \/ Refuse(r, tier)
  BY <1>4, <1>6, <1>8, <1>9, <1>10, <1>11 DEF Next, vars
<1>13. adds[r].op # "none" BY <1>12 DEF PdfAdd, LibraryAdd, Refuse
<1>14. adds' = [adds EXCEPT ![r] = NoAdd] BY <1>12 DEF PdfAdd, LibraryAdd, Refuse, Answer
<1>15. adds'[r].op = "none" BY <1>1, <1>14 DEF NoAdd
<1> QED BY <1>13, <1>15

\* Without the room's creator nothing but an add that was under way changes the
\* whiteboard, whoever is in the room and however control moved before.
THEOREM UntouchedCorrect == Spec => UntouchedWithoutHost
<1>1. Inv /\ [Next]_vars =>
        [host = NoSock /\ [wb' EXCEPT !.owner = wb.owner] # wb
           => \E r \in Requests : adds[r].op # "none" /\ adds'[r].op = "none"]_vars
  BY OnlyAddsTouch
<1> QED BY <1>1, InitInv, NextInv, PTL DEF Spec, UntouchedWithoutHost

-----------------------------------------------------------------------------
(* DrawingHistory: the inductive invariant *)

Distinct(d) == \A i, j \in DOMAIN d : d[i].id = d[j].id => i = j

\* What the proofs need to know of a sequence of versions.
DrawingStored(s) == s \in Seq(Drawing) /\ \A k \in 1..Len(s) : Distinct(s[k])

\* The inductive invariant.
DrawingInv ==
    /\ active \in BOOLEAN
    /\ strokes \in Drawing /\ Distinct(strokes)
    /\ DrawingStored(undo) /\ DrawingStored(redo)
    /\ Len(undo) + Len(redo) <= MaxHistory

-----------------------------------------------------------------------------
(* DrawingHistory: sequences *)

LEMMA DrawingIsSeq ==
    ASSUME NEW d
    PROVE  d \in Drawing <=> d \in Seq(Stroke) /\ Len(d) <= MaxStrokes
<1>1. MaxStrokes \in Nat BY LimitsAssumption
<1>2. ASSUME d \in Drawing PROVE d \in Seq(Stroke) /\ Len(d) <= MaxStrokes
  <2>1. PICK m \in 0..MaxStrokes : d \in [1..m -> Stroke]
    BY <1>2 DEF Drawing, BoundedSeq, SeqOf
  <2>2. m \in Nat /\ m <= MaxStrokes BY <2>1, <1>1
  <2>3. d \in Seq(Stroke) BY <2>1, <2>2, SeqDef
  <2>4. Len(d) = m BY <2>1, <2>2, <2>3, LenProperties
  <2> QED BY <2>2, <2>3, <2>4
<1>3. ASSUME d \in Seq(Stroke), Len(d) <= MaxStrokes PROVE d \in Drawing
  <2>1. Len(d) \in 0..MaxStrokes /\ d \in [1..Len(d) -> Stroke]
    BY <1>1, <1>3, LenProperties
  <2> QED BY <2>1 DEF Drawing, BoundedSeq, SeqOf
<1> QED BY <1>2, <1>3

LEMMA NewestIsTail ==
    ASSUME NEW S, NEW s \in Seq(S), NEW n \in Nat \ {0}
    PROVE  /\ Newest(s, n) \in Seq(S)
           /\ Len(Newest(s, n)) = IF Len(s) <= n THEN Len(s) ELSE n
           /\ \A i \in 1..Len(Newest(s, n)) :
                /\ Len(s) - Len(Newest(s, n)) + i \in 1..Len(s)
                /\ Newest(s, n)[i] = s[Len(s) - Len(Newest(s, n)) + i]
<1>1. Len(s) \in Nat /\ \A i \in 1..Len(s) : s[i] \in S
  BY LenProperties, ElementOfSeq
<1>2. CASE Len(s) <= n BY <1>1, <1>2 DEF Newest
<1>3. CASE Len(s) > n
  <2> DEFINE lo == Len(s) - n + 1
  <2>1. lo \in Int /\ Len(s) \in Int /\ lo >= 1 /\ lo <= Len(s) /\ Len(s) - lo + 1 = n
    BY <1>1, <1>3
  <2>2. \A i \in lo..Len(s) : s[i] \in S BY <1>1, <2>1
  <2> HIDE DEF lo
  <2>3. /\ SubSeq(s, lo, Len(s)) \in Seq(S)
        /\ Len(SubSeq(s, lo, Len(s))) = n
        /\ \A i \in 1..n : SubSeq(s, lo, Len(s))[i] = s[lo + i - 1]
    BY <2>1, <2>2, SubSeqProperties
  <2>4. Newest(s, n) = SubSeq(s, lo, Len(s)) BY <1>1, <1>3 DEF Newest, lo
  <2>5. \A i \in 1..n : Len(s) - n + i \in 1..Len(s) /\ lo + i - 1 = Len(s) - n + i
    BY <1>1, <1>3 DEF lo
  <2> HIDE DEF lo
  <2>6. Len(Newest(s, n)) = n /\ Newest(s, n) \in Seq(S) BY <2>3, <2>4
  <2>7. ASSUME NEW i \in 1..n
        PROVE  Len(s) - n + i \in 1..Len(s) /\ Newest(s, n)[i] = s[Len(s) - n + i]
    <3>1. Newest(s, n)[i] = s[lo + i - 1] BY <2>3, <2>4
    <3> QED BY <3>1, <2>5
  <2>8. ~ Len(s) <= n BY <1>1, <1>3
  <2> QED BY <2>6, <2>7, <2>8
<1> QED BY <1>1, <1>2, <1>3

LEMMA FrontAndLast ==
    ASSUME NEW S, NEW s \in Seq(S), s # <<>>
    PROVE  /\ Len(s) >= 1 /\ Last(s) = s[Len(s)] /\ Last(s) \in S
           /\ Front(s) \in Seq(S) /\ Len(Front(s)) = Len(s) - 1
           /\ \A i \in 1..Len(s) - 1 : Front(s)[i] = s[i]
<1>1. Len(s) \in Nat /\ Len(s) >= 1 /\ \A i \in 1..Len(s) : s[i] \in S
  BY EmptySeq, LenProperties, ElementOfSeq
<1>2. 1 \in Int /\ Len(s) - 1 \in Int /\ \A i \in 1..Len(s) - 1 : s[i] \in S BY <1>1
<1>3. /\ Front(s) \in Seq(S)
      /\ Len(Front(s)) = IF 1 <= Len(s) - 1 THEN (Len(s) - 1) - 1 + 1 ELSE 0
      /\ \A i \in 1..((Len(s) - 1) - 1 + 1) : Front(s)[i] = s[1 + i - 1]
  BY <1>2, SubSeqProperties DEF Front
<1>4. Len(Front(s)) = Len(s) - 1
  <2> DEFINE n == Len(s)
  <2>1. n \in Nat /\ n >= 1 BY <1>1
  <2>2. Len(Front(s)) = IF 1 <= n - 1 THEN (n - 1) - 1 + 1 ELSE 0 BY <1>3
  <2> HIDE DEF n
  <2>3. (IF 1 <= n - 1 THEN (n - 1) - 1 + 1 ELSE 0) = n - 1 BY <2>1
  <2> QED BY <2>2, <2>3 DEF n
<1>5. ASSUME NEW i \in 1..Len(s) - 1 PROVE Front(s)[i] = s[i]
  <2>1. i \in 1..((Len(s) - 1) - 1 + 1) /\ 1 + i - 1 = i BY <1>1
  <2> QED BY <1>3, <2>1
<1>6. Last(s) = s[Len(s)] /\ s[Len(s)] \in S BY <1>1 DEF Last
<1> QED BY <1>1, <1>3, <1>4, <1>5, <1>6

\* Dropping the stroke at i moves the later ones down by one.
LEMMA RemoveAtIsSeq ==
    ASSUME NEW S, NEW s \in Seq(S), NEW k \in 1..Len(s)
    PROVE  /\ RemoveAt(s, k) \in Seq(S) /\ Len(RemoveAt(s, k)) = Len(s) - 1
           /\ \A i \in 1..Len(s) - 1 :
                RemoveAt(s, k)[i] = IF i < k THEN s[i] ELSE s[i + 1]
<1> DEFINE a == SubSeq(s, 1, k - 1)
           b == SubSeq(s, k + 1, Len(s))
<1>1. Len(s) \in Nat /\ k \in Nat /\ k >= 1 /\ k <= Len(s)
      /\ \A i \in 1..Len(s) : s[i] \in S
  BY LenProperties, ElementOfSeq
<1>2. /\ a \in Seq(S) /\ Len(a) = (IF 1 <= k - 1 THEN (k - 1) - 1 + 1 ELSE 0)
      /\ \A i \in 1..((k - 1) - 1 + 1) : a[i] = s[1 + i - 1]
  <2>1. 1 \in Int /\ k - 1 \in Int /\ \A i \in 1..k - 1 : s[i] \in S BY <1>1
  <2> QED BY <2>1, SubSeqProperties
<1>3. /\ b \in Seq(S) /\ Len(b) = (IF k + 1 <= Len(s) THEN Len(s) - (k + 1) + 1 ELSE 0)
      /\ \A i \in 1..(Len(s) - (k + 1) + 1) : b[i] = s[(k + 1) + i - 1]
  <2>1. k + 1 \in Int /\ Len(s) \in Int /\ \A i \in (k + 1)..Len(s) : s[i] \in S BY <1>1
  <2> QED BY <2>1, SubSeqProperties
<1>4. RemoveAt(s, k) = a \o b BY DEF RemoveAt
<1> HIDE DEF a, b
<1>5. Len(a) = k - 1 /\ Len(b) = Len(s) - k BY <1>1, <1>2, <1>3
<1>6. /\ a \o b \in Seq(S) /\ Len(a \o b) = Len(a) + Len(b)
      /\ \A i \in 1..Len(a) + Len(b) :
           (a \o b)[i] = IF i <= Len(a) THEN a[i] ELSE b[i - Len(a)]
  BY <1>2, <1>3, ConcatProperties
<1>7. ASSUME NEW i \in 1..Len(s) - 1
      PROVE  (a \o b)[i] = IF i < k THEN s[i] ELSE s[i + 1]
  <2>1. i \in 1..Len(a) + Len(b) BY <1>1, <1>5
  <2>2. (a \o b)[i] = IF i <= Len(a) THEN a[i] ELSE b[i - Len(a)] BY <1>6, <2>1
  <2>3. CASE i < k
    <3>1. i <= Len(a) /\ i \in 1..((k - 1) - 1 + 1) /\ 1 + i - 1 = i BY <2>3, <1>1, <1>5
    <3>2. a[i] = s[i] BY <3>1, <1>2
    <3> QED BY <2>2, <2>3, <3>1, <3>2
  <2>4. CASE i >= k
    <3>1. /\ ~ i <= Len(a) /\ i - Len(a) = i - k + 1
          /\ i - k + 1 \in 1..(Len(s) - (k + 1) + 1) /\ (k + 1) + (i - k + 1) - 1 = i + 1
      BY <2>4, <1>1, <1>5
    <3>2. b[i - k + 1] = s[i + 1] BY <3>1, <1>3
    <3>3. ~ i < k BY <2>4, <1>1
    <3> QED BY <2>2, <3>1, <3>2, <3>3
  <2>5. i < k \/ i >= k BY <1>1
  <2> QED BY <2>3, <2>4, <2>5
<1> QED BY <1>1, <1>4, <1>5, <1>6, <1>7

-----------------------------------------------------------------------------
(* DrawingHistory: drawings *)

LEMMA Limits == MaxStrokes \in Nat \ {0} /\ MaxPoints \in Nat \ {0} /\ MaxHistory \in Nat \ {0}
BY LimitsAssumption

LEMMA DrawingParts ==
    ASSUME NEW d \in Drawing
    PROVE  /\ d \in Seq(Stroke) /\ Len(d) \in Nat /\ Len(d) <= MaxStrokes
           /\ DOMAIN d = 1..Len(d) /\ \A i \in 1..Len(d) : d[i] \in Stroke
BY DrawingIsSeq, LenProperties, ElementOfSeq

\* A new stroke, the oldest dropped when the drawing is full.
LEMMA StartedDrawing ==
    ASSUME NEW d \in Drawing, Distinct(d), NEW st \in Stroke, ~ HasId(d, st.id)
    PROVE  LET e == Newest(Append(d, st), MaxStrokes)
           IN  e \in Drawing /\ Distinct(e)
<1> DEFINE f == Append(d, st)
           e == Newest(f, MaxStrokes)
<1>1. d \in Seq(Stroke) /\ Len(d) \in Nat /\ DOMAIN d = 1..Len(d) BY DrawingParts
<1>2. /\ f \in Seq(Stroke) /\ Len(f) = Len(d) + 1
      /\ \A i \in 1..Len(d) : f[i] = d[i]
      /\ f[Len(d) + 1] = st
  BY <1>1, AppendProperties
<1> HIDE DEF f
<1>3. /\ e \in Seq(Stroke)
      /\ Len(e) = IF Len(f) <= MaxStrokes THEN Len(f) ELSE MaxStrokes
      /\ \A i \in 1..Len(e) : /\ Len(f) - Len(e) + i \in 1..Len(f)
                              /\ e[i] = f[Len(f) - Len(e) + i]
  BY <1>2, Limits, NewestIsTail
<1> HIDE DEF e
<1>4. e \in Drawing BY <1>1, <1>2, <1>3, Limits, DrawingIsSeq
<1>5. ASSUME NEW i \in 1..Len(f), NEW j \in 1..Len(f), f[i].id = f[j].id PROVE i = j
  <2>1. CASE i \in 1..Len(d) /\ j \in 1..Len(d)
    BY <2>1, <1>1, <1>2, <1>5 DEF Distinct
  <2>2. CASE i = Len(d) + 1 /\ j \in 1..Len(d)
    BY <2>2, <1>1, <1>2, <1>5 DEF HasId
  <2>3. CASE j = Len(d) + 1 /\ i \in 1..Len(d)
    BY <2>3, <1>1, <1>2, <1>5 DEF HasId
  <2>4. CASE i = Len(d) + 1 /\ j = Len(d) + 1
    BY <2>4
  <2>5. \A k \in 1..Len(f) : k \in 1..Len(d) \/ k = Len(d) + 1 BY <1>1, <1>2
  <2> QED BY <2>1, <2>2, <2>3, <2>4, <2>5
<1>6. Len(e) \in Nat /\ DOMAIN e = 1..Len(e) BY <1>3, LenProperties
<1>7. ASSUME NEW i \in 1..Len(e), NEW j \in 1..Len(e), e[i].id = e[j].id PROVE i = j
  <2> DEFINE k == Len(f) - Len(e)
  <2>1. k + i \in 1..Len(f) /\ e[i] = f[k + i] BY <1>3
  <2>2. k + j \in 1..Len(f) /\ e[j] = f[k + j] BY <1>3
  <2>3. k + i = k + j BY <1>5, <1>7, <2>1, <2>2
  <2>4. k \in Int /\ i \in Int /\ j \in Int BY <1>1, <1>2, <1>6
  <2> QED BY <2>3, <2>4
<1>8. Distinct(e) BY <1>6, <1>7 DEF Distinct
<1> QED BY <1>4, <1>8 DEF e, f

LEMMA ShorterDrawing ==
    ASSUME NEW d \in Drawing, Distinct(d), NEW k \in DOMAIN d
    PROVE  RemoveAt(d, k) \in Drawing /\ Distinct(RemoveAt(d, k))
<1> DEFINE e == RemoveAt(d, k)
<1>1. /\ d \in Seq(Stroke) /\ Len(d) \in Nat /\ Len(d) <= MaxStrokes
      /\ DOMAIN d = 1..Len(d) /\ k \in 1..Len(d)
  BY DrawingParts
<1>2. /\ e \in Seq(Stroke) /\ Len(e) = Len(d) - 1
      /\ \A i \in 1..Len(d) - 1 : e[i] = IF i < k THEN d[i] ELSE d[i + 1]
  BY <1>1, RemoveAtIsSeq
<1> HIDE DEF e
<1>3. e \in Drawing BY <1>1, <1>2, Limits, DrawingIsSeq
<1>4. Len(e) \in Nat /\ DOMAIN e = 1..Len(d) - 1 BY <1>1, <1>2, LenProperties
<1>5. ASSUME NEW i \in 1..Len(d) - 1, NEW j \in 1..Len(d) - 1, e[i].id = e[j].id PROVE i = j
  <2> DEFINE at(m) == IF m < k THEN m ELSE m + 1
  <2>1. at(i) \in 1..Len(d) /\ at(j) \in 1..Len(d) BY <1>1
  <2>2. e[i] = d[at(i)] /\ e[j] = d[at(j)] BY <1>2
  <2>3. at(i) = at(j) BY <1>1, <1>5, <2>1, <2>2 DEF Distinct
  <2> QED BY <1>1, <2>3
<1>6. Distinct(e) BY <1>4, <1>5 DEF Distinct
<1> QED BY <1>3, <1>6 DEF e

\* Another number of points changes neither the order nor the ids.
LEMMA RedrawnDrawing ==
    ASSUME NEW d \in Drawing, Distinct(d), NEW k \in DOMAIN d, NEW n \in 1..MaxPoints
    PROVE  LET e == [d EXCEPT ![k].points = n]
           IN  /\ e \in Drawing /\ Distinct(e) /\ DOMAIN e = DOMAIN d
               /\ \A i \in DOMAIN d : e[i].id = d[i].id
               /\ e[k].points = n /\ \A i \in DOMAIN d \ {k} : e[i] = d[i]
<1> DEFINE e == [d EXCEPT ![k].points = n]
<1>1. /\ d \in Seq(Stroke) /\ Len(d) \in Nat /\ Len(d) <= MaxStrokes
      /\ DOMAIN d = 1..Len(d) /\ k \in 1..Len(d) /\ \A i \in 1..Len(d) : d[i] \in Stroke
  BY DrawingParts
<1>2. [d[k] EXCEPT !.points = n] \in Stroke /\ [d[k] EXCEPT !.points = n].id = d[k].id
      /\ [d[k] EXCEPT !.points = n].points = n
  BY <1>1 DEF Stroke
<1>3. /\ e \in Seq(Stroke) /\ Len(e) = Len(d)
      /\ \A i \in 1..Len(d) : e[i] = IF i = k THEN [d[k] EXCEPT !.points = n] ELSE d[i]
  BY <1>1, <1>2, ExceptSeq
<1>4. DOMAIN e = 1..Len(d) BY <1>1
<1> HIDE DEF e
<1>5. e \in Drawing BY <1>1, <1>3, DrawingIsSeq
<1>6. \A i \in 1..Len(d) : e[i].id = d[i].id BY <1>2, <1>3
<1>7. Distinct(e) BY <1>1, <1>4, <1>6 DEF Distinct
<1>8. e[k].points = n /\ \A i \in 1..Len(d) \ {k} : e[i] = d[i] BY <1>1, <1>2, <1>3
<1> QED BY <1>1, <1>4, <1>5, <1>6, <1>7, <1>8 DEF e

-----------------------------------------------------------------------------
(* DrawingHistory: the stacks *)

LEMMA StoredParts ==
    ASSUME NEW s, DrawingStored(s)
    PROVE  /\ s \in Seq(Drawing) /\ Len(s) \in Nat
           /\ \A k \in 1..Len(s) : s[k] \in Drawing /\ Distinct(s[k])
BY LenProperties, ElementOfSeq DEF DrawingStored

LEMMA StoredPush ==
    ASSUME NEW s, DrawingStored(s), NEW d \in Drawing, Distinct(d)
    PROVE  LET t == Newest(Append(s, d), MaxHistory)
           IN  /\ DrawingStored(t)
               /\ Len(t) = IF Len(s) < MaxHistory THEN Len(s) + 1 ELSE MaxHistory
               /\ Len(s) < MaxHistory => t = Append(s, d)
<1> DEFINE a == Append(s, d)
           t == Newest(a, MaxHistory)
<1>1. s \in Seq(Drawing) /\ Len(s) \in Nat /\ \A k \in 1..Len(s) : Distinct(s[k])
  BY StoredParts
<1>2. /\ a \in Seq(Drawing) /\ Len(a) = Len(s) + 1
      /\ \A i \in 1..Len(s) : a[i] = s[i]
      /\ a[Len(s) + 1] = d
  BY <1>1, AppendProperties
<1> HIDE DEF a
<1>3. \A k \in 1..Len(a) : Distinct(a[k])
  <2>1. \A k \in 1..Len(a) : k \in 1..Len(s) \/ k = Len(s) + 1 BY <1>1, <1>2
  <2> QED BY <1>1, <1>2, <2>1
<1>4. /\ t \in Seq(Drawing)
      /\ Len(t) = IF Len(a) <= MaxHistory THEN Len(a) ELSE MaxHistory
      /\ \A i \in 1..Len(t) : /\ Len(a) - Len(t) + i \in 1..Len(a)
                              /\ t[i] = a[Len(a) - Len(t) + i]
  BY <1>2, Limits, NewestIsTail
<1>5. Len(s) < MaxHistory => t = a BY <1>1, <1>2, Limits DEF Newest
<1> HIDE DEF t
<1>6. \A k \in 1..Len(t) : Distinct(t[k]) BY <1>3, <1>4
<1>7. DrawingStored(t) BY <1>4, <1>6 DEF DrawingStored
<1>8. Len(t) = IF Len(s) < MaxHistory THEN Len(s) + 1 ELSE MaxHistory
  BY <1>1, <1>2, <1>4, Limits
<1> QED BY <1>5, <1>7, <1>8 DEF t, a

LEMMA StoredPop ==
    ASSUME NEW s, DrawingStored(s), s # <<>>
    PROVE  /\ DrawingStored(Front(s)) /\ Len(Front(s)) = Len(s) - 1 /\ Len(s) >= 1
           /\ Last(s) = s[Len(s)] /\ Last(s) \in Drawing /\ Distinct(Last(s))
           /\ \A i \in 1..Len(s) - 1 : Front(s)[i] = s[i]
<1>1. s \in Seq(Drawing) /\ Len(s) \in Nat /\ \A k \in 1..Len(s) : Distinct(s[k])
  BY StoredParts
<1>2. /\ Len(s) >= 1 /\ Last(s) = s[Len(s)] /\ Last(s) \in Drawing
      /\ Front(s) \in Seq(Drawing) /\ Len(Front(s)) = Len(s) - 1
      /\ \A i \in 1..Len(s) - 1 : Front(s)[i] = s[i]
  BY <1>1, FrontAndLast
<1>3. Distinct(Last(s))
  <2>1. Len(s) \in 1..Len(s) BY <1>1, <1>2
  <2> QED BY <1>1, <1>2, <2>1
<1>4. DrawingStored(Front(s))
  <2>1. \A i \in 1..Len(s) - 1 : i \in 1..Len(s) BY <1>1
  <2>2. \A i \in 1..Len(s) - 1 : Distinct(Front(s)[i]) BY <1>1, <1>2, <2>1
  <2> QED BY <1>2, <2>2 DEF DrawingStored
<1> QED BY <1>2, <1>3, <1>4

LEMMA NothingStored == DrawingStored(<<>>) /\ <<>> \in Drawing /\ Distinct(<<>>) /\ Len(<<>>) = 0
<1>1. <<>> \in Seq(Stroke) /\ Len(<<>>) = 0 BY EmptySeq
<1>2. <<>> \in Drawing
  <2>1. Len(<<>>) <= MaxStrokes BY <1>1, Limits
  <2> QED BY <1>1, <2>1, DrawingIsSeq, ZenonT(60)
<1> QED BY <1>1, <1>2, EmptySeq DEF DrawingStored, Distinct

-----------------------------------------------------------------------------
(* DrawingHistory: invariance *)

LEMMA PushKeepsInv ==
    ASSUME DrawingInv, NEW e \in Drawing, Distinct(e), PushHistory(e)
    PROVE  /\ strokes' \in Drawing /\ Distinct(strokes)'
           /\ DrawingStored(undo)' /\ DrawingStored(redo)' /\ (Len(undo) + Len(redo) <= MaxHistory)'
<1> DEFINE t == Newest(Append(undo, strokes), MaxHistory)
<1>1. DrawingStored(t) /\ Len(t) = IF Len(undo) < MaxHistory THEN Len(undo) + 1 ELSE MaxHistory
  BY StoredPush DEF DrawingInv
<1>2. strokes' = e /\ undo' = t /\ redo' = <<>> BY DEF PushHistory
<1> HIDE DEF t
<1>3. DrawingStored(undo)' BY <1>1, <1>2 DEF DrawingStored
<1>4. DrawingStored(redo)' BY <1>2, NothingStored DEF DrawingStored
<1>5. Len(t) <= MaxHistory /\ Len(t) \in Nat
  BY <1>1, StoredParts, Limits DEF DrawingInv
<1>6. (Len(undo) + Len(redo) <= MaxHistory)' BY <1>2, <1>5, NothingStored
<1>7. Distinct(strokes)' BY <1>2 DEF Distinct
<1> QED BY <1>2, <1>3, <1>4, <1>6, <1>7

LEMMA DrawingInitInv == DrawingInit => DrawingInv
<1> SUFFICES ASSUME DrawingInit PROVE DrawingInv OBVIOUS
<1>1. strokes = <<>> /\ undo = <<>> /\ redo = <<>> /\ active \in BOOLEAN BY DEF DrawingInit
<1>2. Len(undo) = 0 /\ Len(redo) = 0 BY <1>1, NothingStored
<1>3. Len(undo) + Len(redo) <= MaxHistory BY <1>2, Limits
<1> QED BY <1>1, <1>3, NothingStored DEF DrawingInv

LEMMA DrawingNextInv == DrawingInv /\ [DrawingNext]_drawingVars => DrawingInv'
<1> SUFFICES ASSUME DrawingInv, [DrawingNext]_drawingVars PROVE DrawingInv' OBVIOUS
<1> USE DEF DrawingInv
<1>0. /\ Len(undo) \in Nat /\ Len(redo) \in Nat
      /\ DOMAIN strokes = 1..Len(strokes) /\ \A i \in DOMAIN strokes : strokes[i] \in Stroke
  BY StoredParts, DrawingParts
<1>1. CASE Activate BY <1>1 DEF Activate, DrawingStored, Distinct
<1>2. CASE Deactivate BY <1>2 DEF Deactivate, DrawingStored, Distinct
<1>3. CASE StrokesClear
  <2>1. PushHistory(<<>>) /\ active' = active BY <1>3 DEF StrokesClear
  <2> QED BY <2>1, NothingStored, PushKeepsInv
<1>4. CASE Undo
  <2>1. /\ DrawingStored(Front(undo)) /\ Len(Front(undo)) = Len(undo) - 1 /\ Len(undo) >= 1
        /\ Last(undo) \in Drawing /\ Distinct(Last(undo))
    BY <1>4, StoredPop DEF Undo
  <2> DEFINE t == Newest(Append(redo, strokes), MaxHistory)
  <2>2. Len(redo) < MaxHistory BY <1>0, <2>1, Limits
  <2>3. DrawingStored(t) /\ Len(t) = Len(redo) + 1 BY <2>2, StoredPush
  <2>4. strokes' = Last(undo) /\ undo' = Front(undo) /\ redo' = t /\ active' = active
    BY <1>4 DEF Undo
  <2> HIDE DEF t
  <2>5. (Len(undo) + Len(redo) <= MaxHistory)' BY <1>0, <2>1, <2>3, <2>4, Limits
  <2>6. DrawingStored(undo)' /\ DrawingStored(redo)' BY <2>1, <2>3, <2>4 DEF DrawingStored
  <2>7. Distinct(strokes)' BY <2>1, <2>4 DEF Distinct
  <2> QED BY <2>1, <2>4, <2>5, <2>6, <2>7
<1>5. CASE Redo
  <2>1. /\ DrawingStored(Front(redo)) /\ Len(Front(redo)) = Len(redo) - 1 /\ Len(redo) >= 1
        /\ Last(redo) \in Drawing /\ Distinct(Last(redo))
    BY <1>5, StoredPop DEF Redo
  <2> DEFINE t == Newest(Append(undo, strokes), MaxHistory)
  <2>2. Len(undo) < MaxHistory BY <1>0, <2>1, Limits
  <2>3. DrawingStored(t) /\ Len(t) = Len(undo) + 1 BY <2>2, StoredPush
  <2>4. strokes' = Last(redo) /\ redo' = Front(redo) /\ undo' = t /\ active' = active
    BY <1>5 DEF Redo
  <2> HIDE DEF t
  <2>5. (Len(undo) + Len(redo) <= MaxHistory)' BY <1>0, <2>1, <2>3, <2>4, Limits
  <2>6. DrawingStored(undo)' /\ DrawingStored(redo)' BY <2>1, <2>3, <2>4 DEF DrawingStored
  <2>7. Distinct(strokes)' BY <2>1, <2>4 DEF Distinct
  <2> QED BY <2>1, <2>4, <2>5, <2>6, <2>7
<1>6. CASE Reset
  <2>1. strokes' = <<>> /\ undo' = <<>> /\ redo' = <<>> /\ active' \in BOOLEAN
    BY <1>6 DEF Reset
  <2>2. Len(undo') = 0 /\ Len(redo') = 0 BY <2>1, NothingStored
  <2>3. (Len(undo) + Len(redo) <= MaxHistory)' BY <2>2, Limits
  <2> QED BY <2>1, <2>3, NothingStored DEF DrawingStored, Distinct
<1>7. ASSUME NEW id \in Ids, NEW n \in 1..MaxPoints, StrokeAdd(id, n) PROVE DrawingInv'
  <2> DEFINE st == [id |-> id, points |-> n]
             e == Newest(Append(strokes, st), MaxStrokes)
  <2>1. st \in Stroke /\ st.id = id BY DEF Stroke
  <2>2. ~ HasId(strokes, st.id) /\ PushHistory(e) /\ active' = active
    BY <1>7, <2>1 DEF StrokeAdd
  <2> HIDE DEF st
  <2>3. e \in Drawing /\ Distinct(e) BY <2>1, <2>2, StartedDrawing
  <2> HIDE DEF e
  <2> QED BY <2>2, <2>3, PushKeepsInv
<1>8. ASSUME NEW i \in DOMAIN strokes, StrokeRemove(i) PROVE DrawingInv'
  <2>1. PushHistory(RemoveAt(strokes, i)) /\ active' = active BY <1>8 DEF StrokeRemove
  <2>2. RemoveAt(strokes, i) \in Drawing /\ Distinct(RemoveAt(strokes, i))
    BY ShorterDrawing
  <2> QED BY <2>1, <2>2, PushKeepsInv
<1>9. ASSUME NEW i \in DOMAIN strokes, NEW n \in 1..MaxPoints, StrokeAppend(i, n) PROVE DrawingInv'
  <2> DEFINE m == IF strokes[i].points + n <= MaxPoints THEN strokes[i].points + n ELSE MaxPoints
             e == [strokes EXCEPT ![i].points = m]
  <2>1. strokes[i].points \in 1..MaxPoints BY <1>0 DEF Stroke
  <2>2. m \in 1..MaxPoints BY <2>1, Limits
  <2>3. strokes' = e /\ UNCHANGED <<active, undo, redo>>
    BY <1>9 DEF StrokeAppend, Appended
  <2> HIDE DEF m
  <2>4. e \in Drawing /\ Distinct(e) BY <2>2, RedrawnDrawing
  <2> HIDE DEF e
  <2> QED BY <2>3, <2>4 DEF DrawingStored, Distinct
<1>10. ASSUME NEW i \in DOMAIN strokes, NEW n \in 1..MaxPoints, StrokeUpdate(i, n) PROVE DrawingInv'
  <2> DEFINE e == [strokes EXCEPT ![i].points = n]
  <2>1. PushHistory(e) /\ active' = active BY <1>10 DEF StrokeUpdate
  <2>2. e \in Drawing /\ Distinct(e) BY RedrawnDrawing
  <2> HIDE DEF e
  <2> QED BY <2>1, <2>2, PushKeepsInv
<1>11. CASE UNCHANGED drawingVars BY <1>11 DEF drawingVars, DrawingStored, Distinct
<1> QED BY <1>1, <1>2, <1>3, <1>4, <1>5, <1>6, <1>7, <1>8, <1>9, <1>10, <1>11 DEF DrawingNext

\* The stacks and the drawing keep their shape for ever, whatever the limits.
THEOREM Invariance == DrawingSpec => []DrawingInv
BY DrawingInitInv, DrawingNextInv, PTL DEF DrawingSpec

\* DrawingTypeOK: the drawing and its versions never exceed their limits.
THEOREM DrawingTypeCorrect == DrawingSpec => []DrawingTypeOK
<1>1. DrawingInv => DrawingTypeOK
  <2> SUFFICES ASSUME DrawingInv PROVE DrawingTypeOK OBVIOUS
  <2>1. undo \in Seq(Drawing) /\ redo \in Seq(Drawing) BY DEF DrawingInv, DrawingStored
  <2>2. Len(undo) \in Nat /\ Len(redo) \in Nat BY StoredParts DEF DrawingInv
  <2> QED BY <2>1, <2>2, Limits DEF DrawingInv, DrawingTypeOK
<1> QED BY <1>1, Invariance, PTL

\* UniqueIds: a stroke id names one stroke in every version there is.
THEOREM IdsCorrect == DrawingSpec => []UniqueIds
<1>1. DrawingInv => UniqueIds
  <2> SUFFICES ASSUME DrawingInv, NEW d \in {strokes} \cup Range(undo) \cup Range(redo)
               PROVE  Distinct(d)
    BY DEF UniqueIds, Distinct
  <2>1. DOMAIN undo = 1..Len(undo) /\ DOMAIN redo = 1..Len(redo)
    BY LenProperties DEF DrawingInv, DrawingStored
  <2> QED BY <2>1 DEF DrawingInv, DrawingStored, Range
<1> QED BY <1>1, Invariance, PTL

\* HistoryFits: undo and redo share one history, so neither ever trims the other's.
THEOREM HistoryCorrect == DrawingSpec => []HistoryFits
<1>1. DrawingInv => HistoryFits BY DEF DrawingInv, HistoryFits
<1> QED BY <1>1, Invariance, PTL

-----------------------------------------------------------------------------
(* DrawingHistory: refinement of Timeline *)

Joined(u, d, r) == u \o <<d>> \o Reverse(r)

LEMMA JoinedParts ==
    ASSUME NEW u \in Seq(Drawing), NEW d \in Drawing, NEW r \in Seq(Drawing)
    PROVE  /\ Joined(u, d, r) \in Seq(Drawing)
           /\ Len(Joined(u, d, r)) = Len(u) + 1 + Len(r)
           /\ \A i \in 1..Len(u) + 1 + Len(r) :
                Joined(u, d, r)[i] = IF i <= Len(u) THEN u[i]
                                     ELSE IF i = Len(u) + 1 THEN d
                                     ELSE r[Len(u) + Len(r) + 2 - i]
<1>1. Len(u) \in Nat /\ Len(r) \in Nat /\ \A i \in 1..Len(r) : r[i] \in Drawing
  BY LenProperties, ElementOfSeq
<1> DEFINE p == <<d>>
           q == Reverse(r)
           n == Len(u)
           m == Len(r)
<1>2. p \in Seq(Drawing) /\ Len(p) = 1 /\ p[1] = d OBVIOUS
<1>3. q \in Seq(Drawing) /\ Len(q) = m /\ \A i \in 1..m : q[i] = r[m - i + 1]
  <2>1. \A i \in 1..m : m - i + 1 \in 1..m BY <1>1
  <2>2. q \in [1..m -> Drawing] BY <1>1, <2>1 DEF Reverse
  <2>3. q \in Seq(Drawing) BY <1>1, <2>2, SeqDef
  <2>4. Len(q) = m BY <1>1, <2>2, <2>3, LenProperties
  <2>5. \A i \in 1..m : q[i] = r[m - i + 1] BY DEF Reverse
  <2> QED BY <2>3, <2>4, <2>5
<1> HIDE DEF p, q
<1>4. /\ u \o p \in Seq(Drawing) /\ Len(u \o p) = n + 1
      /\ \A i \in 1..n + 1 : (u \o p)[i] = IF i <= n THEN u[i] ELSE p[i - n]
  <2>1. /\ u \o p \in Seq(Drawing) /\ Len(u \o p) = n + Len(p)
        /\ \A i \in 1..n + Len(p) : (u \o p)[i] = IF i <= n THEN u[i] ELSE p[i - n]
    BY <1>2, ConcatProperties
  <2> QED BY <2>1, <1>2
<1>5. /\ (u \o p) \o q \in Seq(Drawing) /\ Len((u \o p) \o q) = n + 1 + m
      /\ \A i \in 1..n + 1 + m :
           ((u \o p) \o q)[i] = IF i <= n + 1 THEN (u \o p)[i] ELSE q[i - (n + 1)]
  <2> DEFINE up == u \o p
  <2>1. up \in Seq(Drawing) /\ Len(up) = n + 1 BY <1>4
  <2> HIDE DEF up, n, m
  <2>2. /\ up \o q \in Seq(Drawing) /\ Len(up \o q) = Len(up) + Len(q)
        /\ \A i \in 1..Len(up) + Len(q) :
             (up \o q)[i] = IF i <= Len(up) THEN up[i] ELSE q[i - Len(up)]
    BY <1>3, <2>1, ConcatProperties
  <2>3. /\ up \o q \in Seq(Drawing) /\ Len(up \o q) = n + 1 + m
        /\ \A i \in 1..n + 1 + m :
             (up \o q)[i] = IF i <= n + 1 THEN up[i] ELSE q[i - (n + 1)]
    BY <1>3, <2>1, <2>2
  <2> QED BY <2>3 DEF up
<1>6. n \in Nat /\ m \in Nat BY <1>1
<1>7. Joined(u, d, r) = (u \o p) \o q BY DEF Joined, p, q
<1> HIDE DEF n, m
<1>8. ASSUME NEW i \in 1..n + 1 + m
      PROVE  ((u \o p) \o q)[i] = IF i <= n THEN u[i] ELSE IF i = n + 1 THEN d
                                  ELSE r[n + m + 2 - i]
  <2>1. CASE i <= n
    <3>1. i \in 1..n + 1 /\ i <= n + 1 BY <1>6, <2>1
    <3> QED BY <1>4, <1>5, <2>1, <3>1
  <2>2. CASE i = n + 1
    <3>1. i \in 1..n + 1 /\ i <= n + 1 /\ ~ i <= n /\ i - n = 1 BY <1>6, <2>2
    <3> QED BY <1>2, <1>4, <1>5, <2>2, <3>1
  <2>3. CASE i > n + 1
    <3>1. /\ ~ i <= n + 1 /\ ~ i <= n /\ i # n + 1 /\ i - (n + 1) \in 1..m
          /\ m - (i - (n + 1)) + 1 = n + m + 2 - i
      BY <1>6, <2>3
    <3>2. q[i - (n + 1)] = r[m - (i - (n + 1)) + 1] BY <1>3, <3>1 DEF m
    <3> QED BY <1>5, <3>1, <3>2
  <2>4. i <= n \/ i = n + 1 \/ i > n + 1 BY <1>6
  <2> QED BY <2>1, <2>2, <2>3, <2>4
<1> QED BY <1>5, <1>7, <1>8 DEF n, m

\* Two timelines with the same versions at the same places are equal.
LEMMA JoinedEqual ==
    ASSUME NEW u \in Seq(Drawing), NEW d \in Drawing, NEW r \in Seq(Drawing),
           NEW t \in Seq(Drawing), Len(t) = Len(u) + 1 + Len(r),
           \A i \in 1..Len(u) + 1 + Len(r) :
              t[i] = IF i <= Len(u) THEN u[i] ELSE IF i = Len(u) + 1 THEN d
                     ELSE r[Len(u) + Len(r) + 2 - i]
    PROVE  Joined(u, d, r) = t
<1> DEFINE v == Joined(u, d, r)
<1>0. /\ v \in Seq(Drawing) /\ Len(v) = Len(u) + 1 + Len(r)
      /\ \A i \in 1..Len(u) + 1 + Len(r) :
           v[i] = IF i <= Len(u) THEN u[i] ELSE IF i = Len(u) + 1 THEN d
                  ELSE r[Len(u) + Len(r) + 2 - i]
  BY JoinedParts, ZenonT(60)
<1> HIDE DEF v
<1>1. /\ v \in Seq(Drawing) /\ Len(v) = Len(t)
      /\ \A i \in 1..Len(v) : v[i] = t[i]
  BY <1>0
<1>2. v = t BY <1>1, SeqEqual
<1> QED BY <1>2 DEF v

\* An undo moves along the line and leaves it as it is.
LEMMA JoinedUndo ==
    ASSUME NEW u, DrawingStored(u), u # <<>>, NEW d \in Drawing, NEW r, DrawingStored(r)
    PROVE  Joined(Front(u), Last(u), Append(r, d)) = Joined(u, d, r)
<1> DEFINE n == Len(u)
           m == Len(r)
           a == Append(r, d)
           f == Front(u)
<1>1. /\ n \in Nat /\ m \in Nat /\ n >= 1 /\ u \in Seq(Drawing) /\ r \in Seq(Drawing)
      /\ f \in Seq(Drawing) /\ Len(f) = n - 1 /\ Last(u) = u[n] /\ Last(u) \in Drawing
      /\ \A i \in 1..n - 1 : f[i] = u[i]
  BY StoredParts, StoredPop
<1>2. /\ a \in Seq(Drawing) /\ Len(a) = m + 1 /\ a[m + 1] = d
      /\ \A i \in 1..m : a[i] = r[i]
  BY <1>1, AppendProperties
<1> DEFINE t == Joined(u, d, r)
<1>3. /\ t \in Seq(Drawing) /\ Len(t) = n + 1 + m
      /\ \A i \in 1..n + 1 + m :
           t[i] = IF i <= n THEN u[i] ELSE IF i = n + 1 THEN d ELSE r[n + m + 2 - i]
  <2>1. u \in Seq(Drawing) /\ r \in Seq(Drawing) BY <1>1
  <2> HIDE DEF t
  <2>2. /\ Joined(u, d, r) \in Seq(Drawing) /\ Len(Joined(u, d, r)) = n + 1 + m
        /\ \A i \in 1..n + 1 + m :
             Joined(u, d, r)[i] = IF i <= n THEN u[i] ELSE IF i = n + 1 THEN d
                                  ELSE r[n + m + 2 - i]
    BY <2>1, JoinedParts, ZenonT(60)
  <2> QED BY <2>2 DEF t
<1> HIDE DEF n, m, a, f, t
<1>4. Len(f) + 1 + Len(a) = n + 1 + m BY <1>1, <1>2
<1>5. ASSUME NEW i \in 1..n + 1 + m
      PROVE  t[i] = IF i <= Len(f) THEN f[i] ELSE IF i = Len(f) + 1 THEN Last(u)
                    ELSE a[Len(f) + Len(a) + 2 - i]
  <2>1. CASE i <= n - 1
    <3>1. i <= n /\ i \in 1..n - 1 /\ i <= Len(f) BY <1>1, <2>1
    <3> QED BY <1>1, <1>3, <3>1
  <2>2. CASE i = n
    <3>1. i <= n /\ ~ i <= Len(f) /\ i = Len(f) + 1 BY <1>1, <2>2
    <3> QED BY <1>1, <1>3, <2>2, <3>1
  <2>3. CASE i = n + 1
    <3>1. /\ ~ i <= n /\ ~ i <= Len(f) /\ i # Len(f) + 1
          /\ Len(f) + Len(a) + 2 - i = m + 1
      BY <1>1, <1>2, <2>3
    <3> QED BY <1>2, <1>3, <2>3, <3>1
  <2>4. CASE i > n + 1
    <3>1. /\ ~ i <= n /\ i # n + 1 /\ ~ i <= Len(f) /\ i # Len(f) + 1
          /\ Len(f) + Len(a) + 2 - i = n + m + 2 - i /\ n + m + 2 - i \in 1..m
      BY <1>1, <1>2, <2>4
    <3> QED BY <1>2, <1>3, <3>1
  <2>5. i <= n - 1 \/ i = n \/ i = n + 1 \/ i > n + 1 BY <1>1
  <2> QED BY <2>1, <2>2, <2>3, <2>4, <2>5
<1>6. Len(t) = Len(f) + 1 + Len(a) BY <1>3, <1>4
<1>7. \A i \in 1..Len(f) + 1 + Len(a) :
         t[i] = IF i <= Len(f) THEN f[i] ELSE IF i = Len(f) + 1 THEN Last(u)
                ELSE a[Len(f) + Len(a) + 2 - i]
  BY <1>4, <1>5
<1>8. Joined(f, Last(u), a) = t
  BY <1>1, <1>2, <1>3, <1>6, <1>7, JoinedEqual, ZenonT(60)
<1> QED BY <1>8 DEF a, f, t

LEMMA FrontLastAppend ==
    ASSUME NEW s \in Seq(Drawing), NEW d \in Drawing
    PROVE  Front(Append(s, d)) = s /\ Last(Append(s, d)) = d /\ Append(s, d) # <<>>
<1> DEFINE a == Append(s, d)
<1>1. /\ a \in Seq(Drawing) /\ a # <<>> /\ Len(a) = Len(s) + 1
      /\ \A i \in 1..Len(s) : a[i] = s[i]
      /\ a[Len(s) + 1] = d /\ Len(s) \in Nat
  BY AppendProperties, LenProperties
<1> HIDE DEF a
<1>2. /\ Last(a) = a[Len(a)] /\ Front(a) \in Seq(Drawing) /\ Len(Front(a)) = Len(a) - 1
      /\ \A i \in 1..Len(a) - 1 : Front(a)[i] = a[i]
  BY <1>1, FrontAndLast
<1>3. Len(a) - 1 = Len(s) BY <1>1
<1>4. Len(Front(a)) = Len(s) /\ \A i \in 1..Len(Front(a)) : Front(a)[i] = s[i]
  BY <1>1, <1>2, <1>3
<1>5. Front(a) = s BY <1>2, <1>4, SeqEqual
<1> QED BY <1>1, <1>2, <1>5 DEF a

LEMMA AppendFrontLast ==
    ASSUME NEW s \in Seq(Drawing), s # <<>>
    PROVE  Append(Front(s), Last(s)) = s
<1> DEFINE f == Front(s)
           a == Append(f, Last(s))
           n == Len(s)
<1>1. /\ n \in Nat /\ n >= 1 /\ Last(s) = s[n] /\ Last(s) \in Drawing
      /\ f \in Seq(Drawing) /\ Len(f) = n - 1
      /\ \A i \in 1..n - 1 : f[i] = s[i]
  BY LenProperties, FrontAndLast
<1> HIDE DEF f, n
<1>2. /\ a \in Seq(Drawing) /\ Len(a) = Len(f) + 1
      /\ \A i \in 1..Len(f) : a[i] = f[i]
      /\ a[Len(f) + 1] = Last(s)
  BY <1>1, AppendProperties
<1> HIDE DEF a
<1>3. Len(a) = n BY <1>1, <1>2
<1>4. ASSUME NEW i \in 1..n PROVE a[i] = s[i]
  <2>1. CASE i \in 1..n - 1 BY <2>1, <1>1, <1>2
  <2>2. CASE i = n
    <3>1. i = Len(f) + 1 BY <1>1, <2>2
    <3> QED BY <3>1, <2>2, <1>1, <1>2
  <2>3. i \in 1..n - 1 \/ i = n BY <1>1
  <2> QED BY <2>1, <2>2, <2>3
<1>5. a = s BY <1>2, <1>3, <1>4, SeqEqual DEF n
<1> QED BY <1>5 DEF a, f

\* A redo moves along the line the other way: it is an undo read backwards.
LEMMA JoinedRedo ==
    ASSUME NEW u, DrawingStored(u), NEW d \in Drawing, Distinct(d),
           NEW r, DrawingStored(r), r # <<>>, Len(u) < MaxHistory
    PROVE  Joined(Append(u, d), Last(r), Front(r)) = Joined(u, d, r)
<1>1. DrawingStored(Append(u, d)) BY StoredPush
<1>2. DrawingStored(Front(r)) /\ Last(r) \in Drawing BY StoredPop
<1>3. u \in Seq(Drawing) /\ r \in Seq(Drawing) BY DEF DrawingStored
<1>4. Append(u, d) # <<>> /\ Front(Append(u, d)) = u /\ Last(Append(u, d)) = d
  BY <1>3, FrontLastAppend
<1>5. Append(Front(r), Last(r)) = r BY <1>3, AppendFrontLast
<1>6. Joined(Front(Append(u, d)), Last(Append(u, d)), Append(Front(r), Last(r)))
        = Joined(Append(u, d), Last(r), Front(r))
  BY <1>1, <1>2, <1>4, JoinedUndo
<1> QED BY <1>4, <1>5, <1>6

\* The pen changes the present version only.
LEMMA JoinedExtend ==
    ASSUME NEW u \in Seq(Drawing), NEW d \in Drawing, NEW r \in Seq(Drawing), NEW e \in Drawing
    PROVE  /\ Joined(u, e, r) = [Joined(u, d, r) EXCEPT ![Len(u) + 1] = e]
           /\ Joined(u, d, r)[Len(u) + 1] = d
<1> DEFINE n == Len(u)
           m == Len(r)
           v == Joined(u, d, r)
           w == [v EXCEPT ![n + 1] = e]
<1>1. n \in Nat /\ m \in Nat BY LenProperties
<1>2. /\ v \in Seq(Drawing) /\ Len(v) = n + 1 + m
      /\ \A i \in 1..n + 1 + m :
           v[i] = IF i <= n THEN u[i] ELSE IF i = n + 1 THEN d ELSE r[n + m + 2 - i]
  <2> HIDE DEF v
  <2>1. /\ Joined(u, d, r) \in Seq(Drawing) /\ Len(Joined(u, d, r)) = n + 1 + m
        /\ \A i \in 1..n + 1 + m :
             Joined(u, d, r)[i] = IF i <= n THEN u[i] ELSE IF i = n + 1 THEN d
                                  ELSE r[n + m + 2 - i]
    BY JoinedParts, ZenonT(60)
  <2> QED BY <2>1 DEF v
<1> HIDE DEF n, m, v
<1>3. n + 1 \in 1..Len(v) /\ n + 1 \in 1..n + 1 + m /\ ~ n + 1 <= n BY <1>1, <1>2
<1>4. v[n + 1] = d BY <1>2, <1>3
<1>5. /\ w \in Seq(Drawing) /\ Len(w) = Len(v)
      /\ \A i \in 1..Len(v) : w[i] = IF i = n + 1 THEN e ELSE v[i]
  BY <1>2, <1>3, ExceptSeq
<1> HIDE DEF w
<1>6. ASSUME NEW i \in 1..n + 1 + m
      PROVE  w[i] = IF i <= n THEN u[i] ELSE IF i = n + 1 THEN e ELSE r[n + m + 2 - i]
  <2>1. CASE i = n + 1 BY <1>2, <1>3, <1>5, <2>1
  <2>2. CASE i # n + 1 BY <1>2, <1>5, <2>2
  <2> QED BY <2>1, <2>2
<1>7. Len(w) = n + 1 + m BY <1>2, <1>5
<1>8. Joined(u, e, r) = w BY <1>5, <1>6, <1>7, JoinedEqual, ZenonT(60) DEF n, m
<1> QED BY <1>4, <1>8 DEF w, v, n

\* An edit cuts the line after the present version and adds one; when the window
\* is full the oldest version goes.
LEMMA JoinedEdit ==
    ASSUME NEW u, DrawingStored(u), Len(u) <= MaxHistory, NEW d \in Drawing, Distinct(d),
           NEW r, DrawingStored(r), NEW e \in Drawing
    PROVE  LET line == Append(SubSeq(Joined(u, d, r), 1, Len(u) + 1), e)
               t    == Newest(Append(u, d), MaxHistory)
           IN  IF Len(u) + 1 < MaxHistory + 1
               THEN Joined(t, e, <<>>) = line /\ Len(t) = Len(u) + 1
               ELSE Joined(t, e, <<>>) = Tail(line) /\ Len(t) = Len(u)
<1> DEFINE n == Len(u)
           m == Len(r)
           v == Joined(u, d, r)
           past == SubSeq(v, 1, n + 1)
           line == Append(past, e)
           a == Append(u, d)
           t == Newest(a, MaxHistory)
<1>1. n \in Nat /\ m \in Nat /\ u \in Seq(Drawing) /\ r \in Seq(Drawing) BY StoredParts
<1>2. /\ v \in Seq(Drawing) /\ Len(v) = n + 1 + m
      /\ \A i \in 1..n + 1 + m :
           v[i] = IF i <= n THEN u[i] ELSE IF i = n + 1 THEN d ELSE r[n + m + 2 - i]
  <2> HIDE DEF v
  <2>0. u \in Seq(Drawing) /\ r \in Seq(Drawing) BY <1>1
  <2>1. /\ Joined(u, d, r) \in Seq(Drawing) /\ Len(Joined(u, d, r)) = n + 1 + m
        /\ \A i \in 1..n + 1 + m :
             Joined(u, d, r)[i] = IF i <= n THEN u[i] ELSE IF i = n + 1 THEN d
                                  ELSE r[n + m + 2 - i]
    BY <2>0, JoinedParts, ZenonT(60)
  <2> QED BY <2>1 DEF v
<1>3. /\ a \in Seq(Drawing) /\ Len(a) = n + 1
      /\ \A i \in 1..n : a[i] = u[i]
      /\ a[n + 1] = d
  BY <1>1, AppendProperties
<1>4. /\ DrawingStored(t) /\ Len(t) = IF n < MaxHistory THEN n + 1 ELSE MaxHistory
      /\ n < MaxHistory => t = a
  BY StoredPush
<1>5. MaxHistory \in Nat \ {0} /\ n <= MaxHistory BY Limits
<1>6. /\ t \in Seq(Drawing)
      /\ \A i \in 1..Len(t) : t[i] = a[Len(a) - Len(t) + i]
  BY <1>3, <1>5, NewestIsTail
<1> HIDE DEF n, m, v, a, t
<1>7. past = a
  <2>1. 1 \in Int /\ n + 1 \in Int /\ \A i \in 1..n + 1 : v[i] \in Drawing
    <3>1. \A i \in 1..n + 1 : i \in 1..Len(v) BY <1>1, <1>2
    <3> QED BY <1>1, <1>2, <3>1, ElementOfSeq
  <2> DEFINE q == n + 1
  <2> HIDE DEF q
  <2>2. 1 \in Int /\ q \in Int /\ \A i \in 1..q : v[i] \in Drawing BY <2>1 DEF q
  <2>3. /\ SubSeq(v, 1, q) \in Seq(Drawing)
        /\ Len(SubSeq(v, 1, q)) = IF 1 <= q THEN q - 1 + 1 ELSE 0
        /\ \A i \in 1..q - 1 + 1 : SubSeq(v, 1, q)[i] = v[1 + i - 1]
    BY <2>2, SubSeqProperties
  <2>4. past = SubSeq(v, 1, q) BY DEF q
  <2> HIDE DEF past
  <2>5. past \in Seq(Drawing) /\ Len(past) = n + 1
    <3>1. q = n + 1 /\ 1 <= q /\ q - 1 + 1 = q BY <1>1 DEF q
    <3> QED BY <2>4, <2>3, <3>1
  <2>6. ASSUME NEW i \in 1..n + 1 PROVE past[i] = a[i]
    <3>1. i \in 1..q - 1 + 1 /\ 1 + i - 1 = i /\ i \in 1..n + 1 + m BY <1>1 DEF q
    <3>2. past[i] = v[i] BY <2>4, <2>3, <3>1
    <3>3. CASE i <= n
      <4>1. i \in 1..n BY <1>1, <3>3
      <4> QED BY <1>2, <1>3, <3>1, <3>2, <3>3, <4>1
    <3>4. CASE i = n + 1
      <4>1. ~ i <= n BY <1>1, <3>4
      <4> QED BY <1>2, <1>3, <3>1, <3>2, <3>4, <4>1
    <3>5. i <= n \/ i = n + 1 BY <1>1
    <3> QED BY <3>3, <3>4, <3>5
  <2> QED BY <1>3, <2>5, <2>6, SeqEqual
<1> HIDE DEF past
<1>8. /\ line \in Seq(Drawing) /\ Len(line) = n + 2
      /\ \A i \in 1..n + 1 : line[i] = a[i]
      /\ line[n + 2] = e
  <2>1. /\ line \in Seq(Drawing) /\ Len(line) = Len(a) + 1
        /\ \A i \in 1..Len(a) : line[i] = a[i]
        /\ line[Len(a) + 1] = e
    BY <1>3, <1>7, AppendProperties
  <2>2. Len(a) = n + 1 /\ n + 1 + 1 = n + 2 BY <1>1, <1>3
  <2> QED BY <2>1, <2>2
<1> HIDE DEF line
<1> DEFINE empty == <<>>
<1>9. empty \in Seq(Drawing) /\ Len(empty) = 0 BY EmptySeq
<1> HIDE DEF empty
<1>10. CASE n < MaxHistory
  <2>1. t = a /\ Len(t) = n + 1 BY <1>3, <1>4, <1>10
  <2>2. Len(line) = Len(t) + 1 + Len(empty) BY <1>1, <1>8, <1>9, <2>1
  <2>3. ASSUME NEW i \in 1..Len(t) + 1 + Len(empty)
        PROVE  line[i] = IF i <= Len(t) THEN t[i] ELSE IF i = Len(t) + 1 THEN e
                         ELSE empty[Len(t) + Len(empty) + 2 - i]
    <3>1. i \in 1..n + 2 BY <1>1, <1>9, <2>1
    <3>2. CASE i <= n + 1
      <4>1. i \in 1..n + 1 /\ i <= Len(t) BY <1>1, <2>1, <3>1, <3>2
      <4> QED BY <1>8, <2>1, <4>1
    <3>3. CASE i = n + 2
      <4>1. ~ i <= Len(t) /\ i = Len(t) + 1 BY <1>1, <2>1, <3>3
      <4> QED BY <1>8, <3>3, <4>1
    <3>4. i <= n + 1 \/ i = n + 2 BY <1>1, <3>1
    <3> QED BY <3>2, <3>3, <3>4
  <2>4. Joined(t, e, empty) = line
    BY <1>6, <1>8, <1>9, <2>2, <2>3, JoinedEqual, ZenonT(60)
  <2>5. n + 1 < MaxHistory + 1 BY <1>1, <1>5, <1>10
  <2> QED BY <2>1, <2>4, <2>5 DEF n, t, a, v, line, past, empty
<1>11. CASE ~ n < MaxHistory
  <2>1. Len(t) = n /\ n = MaxHistory BY <1>1, <1>4, <1>5, <1>11
  <2> DEFINE rest == Tail(line)
  <2>2. /\ rest \in Seq(Drawing) /\ Len(rest) = n + 1
        /\ \A i \in 1..n + 1 : rest[i] = line[i + 1]
    <3>1. line # <<>> BY <1>1, <1>8, EmptySeq
    <3>2. /\ rest \in Seq(Drawing) /\ Len(rest) = Len(line) - 1
          /\ \A i \in 1..Len(rest) : rest[i] = line[i + 1]
      BY <1>8, <3>1, HeadTailProperties
    <3>3. Len(line) - 1 = n + 1 BY <1>1, <1>8
    <3> QED BY <3>2, <3>3
  <2> HIDE DEF rest
  <2>3. Len(rest) = Len(t) + 1 + Len(empty) BY <1>1, <1>9, <2>1, <2>2
  <2>4. ASSUME NEW i \in 1..Len(t) + 1 + Len(empty)
        PROVE  rest[i] = IF i <= Len(t) THEN t[i] ELSE IF i = Len(t) + 1 THEN e
                         ELSE empty[Len(t) + Len(empty) + 2 - i]
    <3>1. i \in 1..n + 1 /\ rest[i] = line[i + 1] BY <1>1, <1>9, <2>1, <2>2
    <3>2. CASE i <= n
      <4>1. /\ i \in 1..Len(t) /\ i <= Len(t) /\ i + 1 \in 1..n + 1
            /\ Len(a) - Len(t) + i = i + 1
        BY <1>1, <1>3, <2>1, <3>1, <3>2
      <4>2. t[i] = a[i + 1] BY <1>6, <4>1
      <4>3. line[i + 1] = a[i + 1] BY <1>8, <4>1
      <4> QED BY <3>1, <4>1, <4>2, <4>3
    <3>3. CASE i = n + 1
      <4>1. ~ i <= Len(t) /\ i = Len(t) + 1 /\ i + 1 = n + 2 BY <1>1, <2>1, <3>3
      <4> QED BY <1>8, <3>1, <4>1
    <3>4. i <= n \/ i = n + 1 BY <1>1, <3>1
    <3> QED BY <3>2, <3>3, <3>4
  <2>5. Joined(t, e, empty) = rest
    BY <1>6, <1>9, <2>2, <2>3, <2>4, JoinedEqual, ZenonT(60)
  <2>6. ~ n + 1 < MaxHistory + 1 BY <1>1, <1>5, <1>11
  <2> QED BY <2>1, <2>5, <2>6 DEF n, t, a, v, line, past, empty, rest
<1> QED BY <1>10, <1>11

LEMMA JoinedBlank == Joined(<<>>, <<>>, <<>>) = <<<<>>>>
<1> DEFINE empty == <<>>
<1>1. empty \in Seq(Drawing) /\ empty \in Drawing /\ Len(empty) = 0
  BY NothingStored, EmptySeq
<1> HIDE DEF empty
<1>2. <<empty>> \in Seq(Drawing) /\ Len(<<empty>>) = 1 /\ <<empty>>[1] = empty BY <1>1
<1>3. ASSUME NEW i \in 1..Len(empty) + 1 + Len(empty)
      PROVE  <<empty>>[i] = IF i <= Len(empty) THEN empty[i]
                            ELSE IF i = Len(empty) + 1 THEN empty
                            ELSE empty[Len(empty) + Len(empty) + 2 - i]
  <2>1. i = 1 /\ ~ i <= Len(empty) /\ i = Len(empty) + 1 BY <1>1
  <2> QED BY <1>2, <2>1
<1>4. Len(<<empty>>) = Len(empty) + 1 + Len(empty) BY <1>1, <1>2
<1>5. Joined(empty, empty, empty) = <<empty>>
  BY <1>1, <1>2, <1>3, <1>4, JoinedEqual, ZenonT(60)
<1> QED BY <1>5 DEF empty

LEMMA VersionsJoined == Versions = Joined(undo, strokes, redo)
BY DEF Versions, Joined

LEMMA EditRefines ==
    ASSUME DrawingInv, NEW e \in Drawing, PushHistory(e)
    PROVE  Line!Edit(e)
<1> DEFINE t == Newest(Append(undo, strokes), MaxHistory)
<1>1. Len(undo) <= MaxHistory
  <2>1. Len(undo) \in Nat /\ Len(redo) \in Nat BY StoredParts DEF DrawingInv
  <2> QED BY <2>1, Limits DEF DrawingInv
<1>2. undo' = t /\ strokes' = e /\ redo' = <<>> BY DEF PushHistory
<1>3. Versions' = Joined(t, e, <<>>) /\ Versions = Joined(undo, strokes, redo)
  BY <1>2 DEF Versions, Joined
<1>4. LET line == Append(SubSeq(Versions, 1, Len(undo) + 1), e)
      IN  IF Len(undo) + 1 < MaxHistory + 1
          THEN Versions' = line /\ Len(undo') = Len(undo) + 1
          ELSE Versions' = Tail(line) /\ Len(undo') = Len(undo)
  BY <1>1, <1>2, <1>3, JoinedEdit DEF DrawingInv
<1> QED BY <1>4 DEF Line!Edit

\* The undo and redo stacks implement the timeline: undo then redo is lossless for
\* any history limit, and no version but the one shown ever changes.
THEOREM Refinement == DrawingSpec => ImplementsTimeline
<1>1. DrawingInit => Line!Init
  <2>1. DrawingInit => Versions = <<<<>>>> /\ Len(undo) = 0
    BY JoinedBlank, NothingStored DEF DrawingInit, Versions, Joined
  <2> QED BY <2>1 DEF Line!Init
<1>2. DrawingInv /\ [DrawingNext]_drawingVars => [Line!Next]_<<Versions, Len(undo) + 1>>
  <2> SUFFICES ASSUME DrawingInv, [DrawingNext]_drawingVars
               PROVE  [Line!Next]_<<Versions, Len(undo) + 1>>
    OBVIOUS
  <2>0. /\ DrawingStored(undo) /\ DrawingStored(redo) /\ strokes \in Drawing /\ Distinct(strokes)
        /\ undo \in Seq(Drawing) /\ redo \in Seq(Drawing)
        /\ Len(undo) \in Nat /\ Len(redo) \in Nat
        /\ Len(undo) + Len(redo) <= MaxHistory
    BY StoredParts DEF DrawingInv
  <2>1. CASE UNCHANGED <<strokes, undo, redo>>
    <3>1. Versions' = Versions /\ Len(undo)' = Len(undo) BY <2>1 DEF Versions
    <3> QED BY <3>1
  <2>2. ASSUME NEW e \in Drawing, PushHistory(e) PROVE Line!Next
    <3>1. Line!Edit(e) BY <2>2, EditRefines
    <3> QED BY <3>1 DEF Line!Next
  <2>3. CASE StrokesClear
    <3>1. PushHistory(<<>>) BY <2>3 DEF StrokesClear
    <3> QED BY <2>2, <3>1, NothingStored
  <2>4. CASE Undo
    <3>1. undo # <<>> /\ strokes' = Last(undo) /\ undo' = Front(undo)
          /\ redo' = Newest(Append(redo, strokes), MaxHistory)
      BY <2>4 DEF Undo
    <3>2. Len(undo) >= 1 /\ Len(Front(undo)) = Len(undo) - 1 BY <2>0, <3>1, StoredPop
    <3>3. Len(redo) < MaxHistory BY <2>0, <3>2, Limits
    <3>4. redo' = Append(redo, strokes) BY <2>0, <3>1, <3>3, StoredPush
    <3>5. Versions' = Joined(Front(undo), Last(undo), Append(redo, strokes))
      BY <3>1, <3>4 DEF Versions, Joined
    <3>6. Versions' = Versions BY <2>0, <3>1, <3>5, JoinedUndo, VersionsJoined
    <3>7. Len(undo) + 1 > 1 /\ (Len(undo) + 1)' = (Len(undo) + 1) - 1 BY <2>0, <3>1, <3>2
    <3> QED BY <3>6, <3>7 DEF Line!Next, Line!Undo
  <2>5. CASE Redo
    <3>1. redo # <<>> /\ strokes' = Last(redo) /\ redo' = Front(redo)
          /\ undo' = Newest(Append(undo, strokes), MaxHistory)
      BY <2>5 DEF Redo
    <3>2. Len(redo) >= 1 BY <2>0, <3>1, StoredPop
    <3>3. Len(undo) < MaxHistory BY <2>0, <3>2, Limits
    <3>4. undo' = Append(undo, strokes) /\ Len(undo') = Len(undo) + 1
      BY <2>0, <3>1, <3>3, StoredPush
    <3>5. Versions' = Joined(Append(undo, strokes), Last(redo), Front(redo))
      BY <3>1, <3>4 DEF Versions, Joined
    <3>6. Versions' = Versions BY <2>0, <3>1, <3>3, <3>5, JoinedRedo, VersionsJoined
    <3>7. Len(Versions) = Len(undo) + 1 + Len(redo)
      BY <2>0, JoinedParts, VersionsJoined, ZenonT(60)
    <3>8. Len(undo) + 1 < Len(Versions) /\ (Len(undo) + 1)' = (Len(undo) + 1) + 1
      BY <2>0, <3>2, <3>4, <3>7
    <3> QED BY <3>6, <3>8 DEF Line!Next, Line!Redo
  <2>6. CASE Reset
    <3>1. strokes' = <<>> /\ undo' = <<>> /\ redo' = <<>> BY <2>6 DEF Reset
    <3>2. Versions' = <<<<>>>> BY <3>1, JoinedBlank DEF Versions, Joined
    <3>3. Len(undo)' = 0 BY <3>1, NothingStored
    <3> QED BY <3>2, <3>3 DEF Line!Next, Line!Reset
  <2>7. ASSUME NEW id \in Ids, NEW n \in 1..MaxPoints, StrokeAdd(id, n) PROVE Line!Next
    <3> DEFINE st == [id |-> id, points |-> n]
               e == Newest(Append(strokes, st), MaxStrokes)
    <3>1. st \in Stroke /\ st.id = id BY DEF Stroke
    <3>2. ~ HasId(strokes, st.id) /\ PushHistory(e) BY <2>7, <3>1 DEF StrokeAdd
    <3> HIDE DEF st
    <3>3. e \in Drawing BY <2>0, <3>1, <3>2, StartedDrawing
    <3> HIDE DEF e
    <3> QED BY <2>2, <3>2, <3>3
  <2>8. ASSUME NEW i \in DOMAIN strokes, StrokeRemove(i) PROVE Line!Next
    <3>1. PushHistory(RemoveAt(strokes, i)) BY <2>8 DEF StrokeRemove
    <3>2. RemoveAt(strokes, i) \in Drawing BY <2>0, ShorterDrawing
    <3> QED BY <2>2, <3>1, <3>2
  <2>9. ASSUME NEW i \in DOMAIN strokes, NEW n \in 1..MaxPoints, StrokeAppend(i, n)
        PROVE  Line!Next
    <3> DEFINE m == IF strokes[i].points + n <= MaxPoints THEN strokes[i].points + n ELSE MaxPoints
               e == [strokes EXCEPT ![i].points = m]
    <3>1. strokes[i].points \in 1..MaxPoints BY <2>0, DrawingParts DEF Stroke
    <3>2. m \in 1..MaxPoints /\ m >= strokes[i].points BY <3>1, Limits
    <3>3. strokes' = e /\ undo' = undo /\ redo' = redo BY <2>9 DEF StrokeAppend, Appended
    <3> HIDE DEF m
    <3>4. /\ e \in Drawing /\ DOMAIN e = DOMAIN strokes
          /\ \A j \in DOMAIN strokes : e[j].id = strokes[j].id
          /\ e[i].points = m /\ \A j \in DOMAIN strokes \ {i} : e[j] = strokes[j]
      <4>1. strokes \in Drawing /\ Distinct(strokes) BY <2>0
      <4>2. m \in 1..MaxPoints BY <3>2
      <4> QED BY <4>1, <4>2, RedrawnDrawing
    <3>5. \A j \in DOMAIN strokes : strokes[j].points \in 1..MaxPoints
      BY <2>0, DrawingParts DEF Stroke
    <3>6. \A j \in DOMAIN strokes : e[j].points >= strokes[j].points
      BY <3>2, <3>4, <3>5
    <3> HIDE DEF e
    <3>7. Grown(strokes, e) BY <3>4, <3>6 DEF Grown
    <3>8. Versions' = [Versions EXCEPT ![Len(undo) + 1] = e]
          /\ Versions[Len(undo) + 1] = strokes
      <4>1. Versions' = Joined(undo, e, redo) BY <3>3 DEF Versions, Joined
      <4>2. e \in Drawing BY <3>4
      <4>3. /\ Joined(undo, e, redo)
                 = [Joined(undo, strokes, redo) EXCEPT ![Len(undo) + 1] = e]
            /\ Joined(undo, strokes, redo)[Len(undo) + 1] = strokes
        BY <2>0, <4>2, JoinedExtend
      <4> QED BY <4>1, <4>3, VersionsJoined
    <3>9. Len(undo)' = Len(undo) BY <3>3
    <3>10. Line!Extend(e) BY <3>7, <3>8, <3>9 DEF Line!Extend
    <3> QED BY <3>4, <3>10 DEF Line!Next
  <2>10. ASSUME NEW i \in DOMAIN strokes, NEW n \in 1..MaxPoints, StrokeUpdate(i, n)
         PROVE  Line!Next
    <3> DEFINE e == [strokes EXCEPT ![i].points = n]
    <3>1. PushHistory(e) BY <2>10 DEF StrokeUpdate
    <3>2. e \in Drawing BY <2>0, RedrawnDrawing
    <3> HIDE DEF e
    <3> QED BY <2>2, <3>1, <3>2
  <2>11. CASE Activate \/ Deactivate BY <2>1, <2>11 DEF Activate, Deactivate
  <2>12. CASE UNCHANGED drawingVars BY <2>1, <2>12 DEF drawingVars
  <2> QED BY <2>3, <2>4, <2>5, <2>6, <2>7, <2>8, <2>9, <2>10, <2>11, <2>12 DEF DrawingNext
<1> QED BY <1>1, <1>2, Invariance, PTL DEF DrawingSpec, ImplementsTimeline, Line!Spec

=============================================================================
