---------------------------- MODULE SessionsProofs ----------------------------
(***************************************************************************)
(* Proofs about module Sessions, for any session objects, any cap and any  *)
(* time to live: the table respects its cap, closes what it drops, and     *)
(* implements the store that docs/operations.md promises.                  *)
(***************************************************************************)
EXTENDS Sessions, FiniteSetTheorems, WellFoundedInduction, TLAPS

\* Insertion order is a strict order of the entries: without it two entries
\* could both be the one to evict.
RanksDistinct ==
    /\ \A i \in Registered : sessions[i].rank < registrations
    /\ \A i, j \in Registered : sessions[i].rank = sessions[j].rank => i = j

\* What was refused is never in the table nor in a handler, so that nothing
\* closes it; what is in a handler was registered.
RefusedApart ==
    /\ \A i \in refused : i \notin Registered /\ i \notin answering
    /\ \A i \in answering : object[i] \in {"open", "closed"}

IInv == TypeOK /\ CapRespected /\ OpenIffKnown /\ RanksDistinct /\ RefusedApart

Entry == [left: 0 .. Ttl, rank: Nat]

States == {"none", "connecting", "open", "closed"}

-------------------------------------------------------------------------------
(* The session to evict *)

\* Strict inclusion of finite sets is well founded, so a finite set of sets
\* has a minimal member.
LEMMA MinimalImage ==
    ASSUME NEW S, IsFiniteSet(S), S # {}, NEW f \in [S -> SUBSET S]
    PROVE  \E n \in S : \A m \in S : ~(f[m] \subseteq f[n] /\ f[m] # f[n])
<1> DEFINE T == {f[n] : n \in S}
<1>1. T \subseteq SUBSET S /\ T # {}
    OBVIOUS
<1>2. \A A \in T : \E n \in S : A = f[n]
    OBVIOUS
<1>3. \A n \in S : f[n] \in T
    OBVIOUS
<1> HIDE DEF T
<1>4. SUBSET S = FiniteSubsetsOf(S)
    BY FS_FiniteSubsetsOfFinite
<1>5. PICK A \in T : \A B \in T : <<B, A>> \notin StrictSubsetOrdering(S)
    BY <1>1, <1>4, FS_StrictSubsetOrderingWellFounded, WFMin
<1>6. \A B \in T : ~(B \subseteq A /\ B # A)
    BY <1>1, <1>5 DEF StrictSubsetOrdering
<1> QED BY <1>2, <1>3, <1>6

\* Earlier is a strict order, total on the table.
LEMMA EarlierOrders ==
    ASSUME TypeOK, RanksDistinct
    PROVE  /\ \A i \in Registered : ~Earlier(i, i)
           /\ \A i, j, k \in Registered : Earlier(i, j) /\ Earlier(j, k) => Earlier(i, k)
           /\ \A i, j \in Registered : i = j \/ Earlier(i, j) \/ Earlier(j, i)
<1>1. \A i \in Registered : sessions[i].left \in Int /\ sessions[i].rank \in Int
    BY DEF TypeOK
<1> QED BY <1>1 DEF Earlier, RanksDistinct

LEMMA HasEarliest ==
    ASSUME TypeOK, RanksDistinct, NEW ids \in SUBSET Registered, IsFiniteSet(ids), ids # {}
    PROVE  \E n \in ids : \A m \in ids : ~Earlier(m, n)
<1> DEFINE f == [n \in ids |-> {m \in ids : Earlier(m, n)}]
<1>1. f \in [ids -> SUBSET ids]
    OBVIOUS
<1>2. \A n, m \in ids : m \in f[n] <=> Earlier(m, n)
    OBVIOUS
<1> HIDE DEF f
<1>3. PICK n \in ids : \A m \in ids : ~(f[m] \subseteq f[n] /\ f[m] # f[n])
    BY ONLY IsFiniteSet(ids), ids # {}, <1>1, MinimalImage
<1>4. ASSUME NEW m \in ids, Earlier(m, n) PROVE FALSE
    <2>1. m \in f[n] /\ m \notin f[m]
        BY <1>2, <1>4, EarlierOrders
    <2>2. ASSUME NEW x \in f[m] PROVE x \in f[n]
        <3>1. x \in ids
            BY <1>1
        <3>2. Earlier(x, m)
            BY <1>2, <3>1
        <3> QED BY <1>2, <1>4, <3>1, <3>2, EarlierOrders
    <2> QED BY <1>3, <2>1, <2>2
<1> QED BY <1>4

\* The loop of register evicts nobody while there is room, and the earliest
\* session alone when there is none.
LEMMA VictimsForm ==
    ASSUME TypeOK, RanksDistinct, NEW ids \in SUBSET Registered,
           IsFiniteSet(ids), Cardinality(ids) <= MaxSessions
    PROVE  /\ Cardinality(ids) < MaxSessions => Victims(ids) = {}
           /\ Cardinality(ids) = MaxSessions =>
                  \E x \in ids : Victims(ids) = {x} /\ \A j \in ids : ~Earlier(j, x)
<1> DEFINE Before(i) == {j \in ids : Earlier(j, i)}
<1>1. ASSUME NEW i \in ids
      PROVE  /\ IsFiniteSet(Before(i)) /\ Cardinality(Before(i)) \in Nat
             /\ Cardinality(Before(i)) = 0 <=> Before(i) = {}
    BY FS_Subset, FS_CardinalityType, FS_EmptySet
<1>2. Cardinality(ids) \in Nat /\ MaxSessions \in Nat \ {0}
    BY FS_CardinalityType, CapAssumption
<1>3. Victims(ids) =
          {i \in ids : Cardinality(Before(i)) < Cardinality(ids) - MaxSessions + 1}
    BY DEF Victims
<1>4. ASSUME Cardinality(ids) < MaxSessions PROVE Victims(ids) = {}
    <2>1. ASSUME NEW i \in ids
          PROVE  ~(Cardinality(Before(i)) < Cardinality(ids) - MaxSessions + 1)
        <3>1. Cardinality(Before(i)) \in Nat
            BY <1>1
        <3> HIDE DEF Before
        <3> QED BY <1>2, <1>4, <3>1
    <2> QED BY <1>3, <2>1
<1>5. ASSUME Cardinality(ids) = MaxSessions
      PROVE  \E x \in ids : Victims(ids) = {x} /\ \A j \in ids : ~Earlier(j, x)
    <2>1. ids # {}
        BY <1>2, <1>5, FS_EmptySet
    <2>2. PICK x \in ids : \A j \in ids : ~Earlier(j, x)
        BY <2>1, HasEarliest
    <2>3. \A i \in ids : i \in Victims(ids) <=> Cardinality(Before(i)) = 0
        <3>1. ASSUME NEW i \in ids
              PROVE  Cardinality(Before(i)) < Cardinality(ids) - MaxSessions + 1
                         <=> Cardinality(Before(i)) = 0
            <4>1. Cardinality(Before(i)) \in Nat
                BY <1>1
            <4> HIDE DEF Before
            <4> QED BY <1>2, <1>5, <4>1
        <3> QED BY <1>3, <3>1
    <2>4. \A i \in ids : i \in Victims(ids) <=> \A j \in ids : ~Earlier(j, i)
        BY <1>1, <2>3
    <2>5. Victims(ids) \subseteq ids
        BY <1>3
    <2>6. \A i \in ids : (\A j \in ids : ~Earlier(j, i)) => i = x
        BY <2>2, EarlierOrders
    <2>7. Victims(ids) = {x}
        BY <2>2, <2>4, <2>5, <2>6
    <2> QED BY <2>2, <2>7
<1> QED BY <1>4, <1>5

-------------------------------------------------------------------------------
(* The invariant *)

LEMMA InitIInv == Init => IInv
<1> SUFFICES ASSUME Init PROVE IInv
    OBVIOUS
<1>1. Registered = {} /\ sessions \in [Registered -> Entry]
    BY DEF Init, Registered, Entry
<1>2. TypeOK
    BY <1>1 DEF Init, TypeOK, Entry
<1>3. CapRespected
    BY <1>1, FS_EmptySet, CapAssumption DEF CapRespected
<1>4. OpenIffKnown /\ RanksDistinct /\ RefusedApart
    BY <1>1 DEF Init, OpenIffKnown, RanksDistinct, RefusedApart
<1> QED BY <1>2, <1>3, <1>4 DEF IInv

\* A step that leaves only entries of the table behind, each with its rank,
\* and closes what it drops and nothing that is kept or was refused.
LEMMA ShrinkKeepsIInv ==
    ASSUME IInv, NEW kept \in SUBSET Registered, NEW dropped \in SUBSET Ids,
           Registered \ kept \subseteq dropped,
           dropped \cap kept = {}, dropped \cap refused = {},
           Registered' = kept, sessions' \in [kept -> Entry],
           \A j \in kept : sessions'[j].rank = sessions[j].rank,
           object' = Closed(dropped), refused' = refused,
           answering' \subseteq answering, deleting' \subseteq Ids,
           registrations' = registrations, up' \in BOOLEAN,
           answer' \in {0, 200, 404},
           up' # up => kept = {} /\ \A i \in Ids : object[i] # "connecting"
    PROVE  IInv'
<1>1. TypeOK'
    <2>1. object' \in [Ids -> States] /\ answering' \subseteq Ids
        BY DEF IInv, TypeOK, Closed, States
    <2> QED BY <2>1 DEF IInv, TypeOK, Entry, States
<1>2. CapRespected'
    <2>1. IsFiniteSet(kept) /\ Cardinality(kept) <= Cardinality(Registered)
        BY FS_Subset DEF IInv, CapRespected
    <2>2. Cardinality(kept) \in Nat /\ Cardinality(Registered) \in Nat
        BY <2>1, FS_CardinalityType DEF IInv, CapRespected
    <2>3. Cardinality(kept) <= MaxSessions
        BY <2>1, <2>2, CapAssumption DEF IInv, CapRespected
    <2> QED BY <2>1, <2>3 DEF CapRespected
<1>3. OpenIffKnown'
    <2>1. \A i \in Ids : object'[i] = "open" <=> i \in kept \/ i \in refused
        BY DEF IInv, TypeOK, OpenIffKnown, Closed
    <2>2. ~up' => kept = {} /\ \A i \in Ids : object'[i] # "connecting"
        BY DEF IInv, TypeOK, OpenIffKnown, Closed
    <2> QED BY <2>1, <2>2 DEF OpenIffKnown
<1>4. RanksDistinct'
    BY DEF IInv, RanksDistinct
<1>5. RefusedApart'
    BY DEF IInv, TypeOK, RefusedApart, Closed
<1> QED BY <1>1, <1>2, <1>3, <1>4, <1>5 DEF IInv

LEMMA CreateKeepsIInv ==
    ASSUME IInv, NEW i \in Ids, Create(i) PROVE IInv'
<1>1. Registered' = Registered
    BY DEF Registered, Create
<1>2. TypeOK'
    BY <1>1 DEF IInv, TypeOK, Create, handlers
<1>3. OpenIffKnown'
    BY <1>1 DEF IInv, TypeOK, OpenIffKnown, Create, handlers
<1>4. RefusedApart'
    BY <1>1 DEF IInv, TypeOK, RefusedApart, Create, handlers
<1> QED BY <1>1, <1>2, <1>3, <1>4 DEF IInv, CapRespected, RanksDistinct, Create

LEMMA RefusedKeepsIInv ==
    ASSUME IInv, NEW i \in Ids, InitializeRefused(i) PROVE IInv'
<1>1. Registered' = Registered
    BY DEF Registered, InitializeRefused
<1>2. TypeOK'
    BY <1>1 DEF IInv, TypeOK, InitializeRefused
<1>3. OpenIffKnown'
    BY <1>1 DEF IInv, TypeOK, OpenIffKnown, InitializeRefused
<1>4. RefusedApart'
    BY <1>1 DEF IInv, TypeOK, OpenIffKnown, RefusedApart, InitializeRefused
<1> QED BY <1>1, <1>2, <1>3, <1>4
        DEF IInv, CapRespected, RanksDistinct, InitializeRefused

LEMMA AnsweredKeepsIInv ==
    ASSUME IInv, NEW i \in Ids, InitializeAnswered(i) PROVE IInv'
BY DEF IInv, TypeOK, CapRespected, OpenIffKnown, RanksDistinct, RefusedApart,
       Registered, InitializeAnswered

\* What Initialized leaves of the table, and what it evicts.
LEMMA MakeRoom ==
    ASSUME IInv, NEW kept, kept = Unexpired(Registered)
    PROVE  /\ kept \subseteq Registered /\ IsFiniteSet(kept)
           /\ Cardinality(kept) \in Nat /\ Cardinality(kept) <= MaxSessions
           /\ Cardinality(kept) < MaxSessions => Victims(kept) = {}
           /\ Cardinality(kept) = MaxSessions =>
                  \E x \in kept : Victims(kept) = {x} /\ \A j \in kept : ~Earlier(j, x)
           /\ IsFiniteSet(kept \ Victims(kept))
           /\ Cardinality(kept \ Victims(kept)) + 1 <= MaxSessions
           /\ Cardinality(kept \ Victims(kept)) \in Nat
<1>1. kept \subseteq Registered
    BY DEF Unexpired
<1>2. IsFiniteSet(kept) /\ Cardinality(kept) <= Cardinality(Registered)
    BY <1>1, FS_Subset DEF IInv, CapRespected
<1>3. Cardinality(kept) \in Nat /\ Cardinality(kept) <= MaxSessions
    <2>1. Cardinality(kept) \in Nat /\ Cardinality(Registered) \in Nat
        BY <1>2, FS_CardinalityType DEF IInv, CapRespected
    <2> QED BY <1>2, <2>1, CapAssumption DEF IInv, CapRespected
<1>4. /\ Cardinality(kept) < MaxSessions => Victims(kept) = {}
      /\ Cardinality(kept) = MaxSessions =>
             \E x \in kept : Victims(kept) = {x} /\ \A j \in kept : ~Earlier(j, x)
    BY <1>1, <1>2, <1>3, VictimsForm DEF IInv
<1>5. IsFiniteSet(kept \ Victims(kept)) /\ Cardinality(kept \ Victims(kept)) \in Nat
    BY <1>2, FS_Subset, FS_CardinalityType
<1>6. Cardinality(kept \ Victims(kept)) + 1 <= MaxSessions
    <2>1. CASE Cardinality(kept) < MaxSessions
        <3>1. kept \ Victims(kept) = kept
            BY <1>4, <2>1
        <3>2. Cardinality(kept \ Victims(kept)) = Cardinality(kept)
            BY <3>1
        <3> QED BY <1>3, <2>1, <3>2, CapAssumption
    <2>2. CASE Cardinality(kept) = MaxSessions
        <3>1. PICK x \in kept : Victims(kept) = {x}
            BY <1>4, <2>2
        <3>2. Cardinality(kept \ {x}) = Cardinality(kept) - 1
            BY <1>2, FS_RemoveElement
        <3>3. Cardinality(kept \ Victims(kept)) = Cardinality(kept) - 1
            BY <3>1, <3>2
        <3> QED BY <1>3, <2>2, <3>3, CapAssumption
    <2> QED BY <1>3, <2>1, <2>2, CapAssumption
<1> QED BY <1>1, <1>2, <1>3, <1>4, <1>5, <1>6

LEMMA InitializedKeepsIInv ==
    ASSUME IInv, NEW i \in Ids, Initialized(i) PROVE IInv'
<1> DEFINE kept == Unexpired(Registered)
           left == kept \ Victims(kept)
<1>1. /\ left \subseteq Registered /\ IsFiniteSet(left)
      /\ Cardinality(left) + 1 <= MaxSessions /\ Cardinality(left) \in Nat
    BY MakeRoom
<1>2. i \notin Registered /\ object[i] = "connecting" /\ up
    BY DEF IInv, TypeOK, OpenIffKnown, Initialized
<1>3. /\ sessions' = [j \in left \cup {i} |->
                          IF j = i THEN [left |-> Ttl, rank |-> registrations]
                                   ELSE sessions[j]]
      /\ object' = [Closed(Registered \ left) EXCEPT ![i] = "open"]
      /\ registrations' = registrations + 1
      /\ answering' = answering \cup {i} /\ deleting' = deleting /\ refused' = refused
      /\ up' = up /\ answer' = answer
    BY DEF Initialized
<1> HIDE DEF left
<1>4. Registered' = left \cup {i}
    BY <1>3 DEF Registered
<1>5. TypeOK'
    <2>1. Registered \subseteq Ids /\ sessions \in [Registered -> Entry]
          /\ registrations \in Nat /\ Ttl \in 0 .. Ttl
        BY CapAssumption DEF IInv, TypeOK, Entry
    <2>2. Registered' \subseteq Ids
        BY <1>1, <1>4, <2>1
    <2>3. sessions' \in [Registered' -> Entry]
        <3>1. [left |-> Ttl, rank |-> registrations] \in Entry
            BY <2>1 DEF Entry
        <3> QED BY <1>1, <1>3, <1>4, <2>1, <3>1
    <2>4. object' \in [Ids -> States]
        BY <1>3 DEF IInv, TypeOK, Closed, States
    <2>5. /\ registrations' \in Nat /\ up' \in BOOLEAN /\ answer' \in {0, 200, 404}
          /\ answering' \subseteq Ids /\ deleting' \subseteq Ids /\ refused' \subseteq Ids
        BY <1>3, <2>1 DEF IInv, TypeOK
    <2> QED BY <2>2, <2>3, <2>4, <2>5 DEF TypeOK, Entry, States
<1>6. CapRespected'
    <2>1. IsFiniteSet(left \cup {i}) /\ Cardinality(left \cup {i}) = Cardinality(left) + 1
        BY <1>1, <1>2, FS_AddElement
    <2> QED BY <1>1, <1>4, <2>1 DEF CapRespected
<1>7. OpenIffKnown'
    <2>1. \A j \in Ids : object'[j] = "open" <=> j \in left \cup {i} \/ j \in refused
        BY <1>1, <1>3 DEF IInv, TypeOK, OpenIffKnown, RefusedApart, Closed
    <2> QED BY <1>2, <1>3, <1>4, <2>1 DEF OpenIffKnown
<1>8. RanksDistinct'
    <2>1. \A j \in left : sessions'[j].rank = sessions[j].rank
                            /\ sessions[j].rank < registrations /\ sessions[j].rank \in Nat
        BY <1>1, <1>2, <1>3 DEF IInv, TypeOK, RanksDistinct
    <2>2. sessions'[i].rank = registrations /\ registrations \in Nat
        BY <1>3 DEF IInv, TypeOK
    <2>3. \A j, k \in left : sessions[j].rank = sessions[k].rank => j = k
        BY <1>1 DEF IInv, RanksDistinct
    <2>4. ASSUME NEW j \in left \cup {i} PROVE sessions'[j].rank < registrations'
        BY <1>3, <2>1, <2>2
    <2>5. ASSUME NEW j \in left \cup {i}, NEW k \in left \cup {i},
                 sessions'[j].rank = sessions'[k].rank
          PROVE  j = k
        BY <2>1, <2>2, <2>3, <2>5
    <2> QED BY <1>4, <2>4, <2>5 DEF RanksDistinct
<1>9. RefusedApart'
    BY <1>1, <1>2, <1>3, <1>4 DEF IInv, TypeOK, OpenIffKnown, RefusedApart, Closed
<1> QED BY <1>5, <1>6, <1>7, <1>8, <1>9 DEF IInv

\* Requests, the ends of sessions, ServerCloses and Tick leave a part of the
\* table.
LEMMA ServiceKeepsIInv ==
    ASSUME IInv,
           \/ Tick \/ ServerCloses
           \/ \E i \in Ids : Request(i) \/ Delete(i) \/ SessionEnds(i) \/ InitializeFails(i)
    PROVE  IInv'
<1> DEFINE kept == Unexpired(Registered)
<1>0. /\ sessions \in [Registered -> Entry] /\ Registered \subseteq Ids
      /\ object \in [Ids -> States]
      /\ up \in BOOLEAN /\ answer \in {0, 200, 404}
      /\ answering \subseteq Ids /\ deleting \subseteq Ids
      /\ refused \cap Registered = {}
      /\ kept \subseteq Registered
    BY DEF IInv, TypeOK, Entry, States, RefusedApart, Unexpired
<1>1. ASSUME NEW i \in Ids, Request(i) \/ Delete(i) PROVE IInv'
    <2>1. /\ sessions' = [j \in kept |-> IF j = i THEN Renewed(i) ELSE sessions[j]]
          /\ object' = Closed(Registered \ kept)
          /\ registrations' = registrations /\ up' = up
          /\ answering' = answering /\ refused' = refused
          /\ answer' \in {0, 200, 404}
        BY <1>1 DEF Request, Delete, Get, handlers
    <2>2. deleting' \subseteq Ids
        BY <1>0, <1>1 DEF Request, Delete, handlers
    <2> HIDE DEF kept
    <2>3. Registered' = kept
        BY <2>1 DEF Registered
    <2>4. \A j \in Registered : [sessions[j] EXCEPT !.left = Ttl] \in Entry
                                 /\ [sessions[j] EXCEPT !.left = Ttl].rank = sessions[j].rank
        BY <1>0, CapAssumption DEF Entry
    <2>5. sessions' \in [kept -> Entry] /\ \A j \in kept : sessions'[j].rank = sessions[j].rank
        BY <1>0, <2>1, <2>4 DEF Renewed
    <2>6. /\ Registered \ kept \in SUBSET Ids
          /\ (Registered \ kept) \cap kept = {} /\ (Registered \ kept) \cap refused = {}
          /\ up' \in BOOLEAN /\ up' = up
        BY <1>0, <2>1
    <2> QED BY <1>0, <2>1, <2>2, <2>3, <2>5, <2>6, ShrinkKeepsIInv
<1>2. ASSUME NEW i \in Ids, SessionEnds(i) \/ InitializeFails(i) PROVE IInv'
    <2> DEFINE rest == Registered \ {i}
    <2>1. /\ sessions' = [j \in rest |-> sessions[j]]
          /\ registrations' = registrations /\ up' = up /\ answer' = answer
          /\ refused' = refused /\ answering' \subseteq answering /\ deleting' \subseteq Ids
        BY <1>0, <1>2 DEF SessionEnds, InitializeFails, KeptOf
    <2>2. PICK dropped \in SUBSET Ids :
              /\ object' = Closed(dropped)
              /\ Registered \ rest \subseteq dropped
              /\ dropped \cap rest = {} /\ dropped \cap refused = {}
        <3>1. CASE SessionEnds(i)
            <4>1. object' = Closed(Registered \cap {i})
                BY <3>1 DEF SessionEnds
            <4>2. /\ Registered \cap {i} \in SUBSET Ids
                  /\ Registered \ rest \subseteq Registered \cap {i}
                  /\ (Registered \cap {i}) \cap rest = {}
                  /\ (Registered \cap {i}) \cap refused = {}
                BY <1>0
            <4> QED BY <4>1, <4>2
        <3>2. CASE InitializeFails(i)
            <4>1. object' = Closed({i}) /\ (object[i] = "connecting" \/ i \in answering)
                BY <3>2 DEF InitializeFails
            <4>2. i \notin refused
                BY <4>1 DEF IInv, OpenIffKnown, RefusedApart
            <4>3. /\ {i} \in SUBSET Ids /\ Registered \ rest \subseteq {i}
                  /\ {i} \cap rest = {} /\ {i} \cap refused = {}
                BY <4>2
            <4> QED BY <4>1, <4>3
        <3> QED BY <1>2, <3>1, <3>2
    <2>3. rest \subseteq Registered
        OBVIOUS
    <2> HIDE DEF rest
    <2>4. Registered' = rest
        BY <2>1 DEF Registered
    <2>5. sessions' \in [rest -> Entry] /\ \A j \in rest : sessions'[j].rank = sessions[j].rank
        BY <1>0, <2>1, <2>3
    <2>6. up' \in BOOLEAN /\ answer' \in {0, 200, 404}
        BY <1>0, <2>1
    <2> QED BY <2>1, <2>2, <2>3, <2>4, <2>5, <2>6, ShrinkKeepsIInv
<1>3. CASE ServerCloses
    <2> DEFINE none == {}
    <2>1. /\ sessions' = [j \in none |-> sessions[j]] /\ object' = Closed(Registered)
          /\ up' = FALSE /\ registrations' = registrations /\ answer' = answer
          /\ answering' = answering /\ deleting' = deleting /\ refused' = refused
          /\ \A i \in Ids : object[i] # "connecting"
        BY <1>3 DEF ServerCloses, KeptOf, handlers
    <2>2. PICK dropped : dropped = Registered
        OBVIOUS
    <2>3. none \subseteq Registered /\ Registered \ none \subseteq Registered
          /\ Registered \cap none = {}
        OBVIOUS
    <2> HIDE DEF none
    <2>4. Registered' = none
        BY <2>1 DEF Registered
    <2>5. sessions' \in [none -> Entry] /\ \A j \in none : sessions'[j].rank = sessions[j].rank
        BY <1>0, <2>1, <2>3
    <2>6. /\ dropped \in SUBSET Ids /\ Registered \ none \subseteq dropped
          /\ dropped \cap none = {} /\ dropped \cap refused = {}
          /\ object' = Closed(dropped)
        BY <1>0, <2>1, <2>2, <2>3
    <2>7. up' \in BOOLEAN /\ answer' \in {0, 200, 404}
        BY <1>0, <2>1
    <2>8. answering' \subseteq answering /\ deleting' \subseteq Ids
        BY <1>0, <2>1
    <2> QED BY <2>1, <2>3, <2>4, <2>5, <2>6, <2>7, <2>8, ShrinkKeepsIInv
<1>4. CASE Tick
    <2>1. sessions' = [i \in Registered |->
                          [sessions[i] EXCEPT !.left = IF sessions[i].left = 0 THEN 0
                                                       ELSE sessions[i].left - 1]]
        BY <1>4 DEF Tick
    <2>2. Registered' = Registered
        BY <2>1 DEF Registered
    <2>3. ASSUME NEW j \in Registered
          PROVE  sessions'[j] \in Entry /\ sessions'[j].rank = sessions[j].rank
        <3>1. sessions[j] \in Entry
            BY <1>0
        <3>2. (IF sessions[j].left = 0 THEN 0 ELSE sessions[j].left - 1) \in 0 .. Ttl
            BY <3>1, CapAssumption DEF Entry
        <3> QED BY <2>1, <3>1, <3>2 DEF Entry
    <2>4. sessions' \in [Registered -> Entry]
        BY <2>1, <2>3
    <2>5. /\ object' = Closed({}) /\ {} \in SUBSET Ids
          /\ Registered \ Registered \subseteq {}
          /\ {} \cap Registered = {} /\ {} \cap refused = {}
        BY <1>0, <1>4 DEF Closed, Tick
    <2>6. registrations' = registrations /\ up' = up /\ up' \in BOOLEAN
          /\ answer' \in {0, 200, 404} /\ refused' = refused
          /\ answering' \subseteq answering /\ deleting' \subseteq Ids
        BY <1>0, <1>4 DEF Tick, handlers
    <2> QED BY <2>2, <2>3, <2>4, <2>5, <2>6, ShrinkKeepsIInv
<1> QED BY <1>1, <1>2, <1>3, <1>4

LEMMA NextIInv == IInv /\ [Next]_vars => IInv'
<1> SUFFICES ASSUME IInv, [Next]_vars PROVE IInv'
    OBVIOUS
<1>1. CASE \/ Tick \/ ServerCloses
           \/ \E i \in Ids : Request(i) \/ Delete(i) \/ SessionEnds(i) \/ InitializeFails(i)
    BY <1>1, ServiceKeepsIInv
<1>2. ASSUME NEW i \in Ids, Create(i) \/ InitializeRefused(i) \/ InitializeAnswered(i)
      PROVE  IInv'
    BY <1>2, CreateKeepsIInv, RefusedKeepsIInv, AnsweredKeepsIInv
<1>3. ASSUME NEW i \in Ids, Initialized(i) PROVE IInv'
    BY <1>3, InitializedKeepsIInv
<1>4. CASE UNCHANGED vars
    BY <1>4 DEF IInv, TypeOK, CapRespected, OpenIffKnown, RanksDistinct,
                RefusedApart, Registered, vars, handlers
<1> QED BY <1>1, <1>2, <1>3, <1>4 DEF Next

-------------------------------------------------------------------------------
(* The table implements the store *)

\* The refinement mapping: how long a live session has been idle.
Idle == [i \in Unexpired(Registered) |-> Ttl - sessions[i].left]

LEMMA IdleForm ==
    ASSUME TypeOK
    PROVE  /\ DOMAIN Idle = Unexpired(Registered)
           /\ \A i \in Unexpired(Registered) :
                 /\ Idle[i] = Ttl - sessions[i].left
                 /\ sessions[i].left \in 1 .. Ttl
                 /\ Idle[i] \in 0 .. Ttl - 1
BY CapAssumption DEF Idle, TypeOK, Unexpired

LEMMA InitRefines == Init => Store!Init
BY DEF Init, Store!Init, Registered, Unexpired

LEMMA TickRefines == ASSUME IInv, Tick PROVE Store!Tick
<1>1. TypeOK /\ Ttl \in Nat
    BY CapAssumption DEF IInv
<1>2. Registered' = Registered
      /\ \A i \in Registered :
            sessions'[i].left = IF sessions[i].left = 0 THEN 0 ELSE sessions[i].left - 1
    BY <1>1 DEF Tick, Registered, TypeOK
<1>3. \A i \in Registered : sessions[i].left \in Nat
    BY <1>1 DEF TypeOK
<1>4. Unexpired(Registered)' = {i \in Unexpired(Registered) : Ttl - sessions[i].left + 1 < Ttl}
    BY <1>1, <1>2, <1>3 DEF Unexpired
<1>5. \A i \in Unexpired(Registered)' : Ttl - sessions'[i].left = Ttl - sessions[i].left + 1
    BY <1>1, <1>2, <1>3 DEF Unexpired
<1>6. Idle' = [i \in {j \in DOMAIN Idle : Idle[j] + 1 < Ttl} |-> Idle[i] + 1]
    BY <1>1, <1>4, <1>5, IdleForm DEF Idle
<1> QED BY <1>6 DEF Store!Tick, Store!Live, Idle

\* Dropping what has expired changes nothing of the store, dropping or renewing
\* a live session is End or Use.
LEMMA GetRefines ==
    ASSUME IInv, NEW i \in Ids, Get(i) PROVE Store!Use(i) \/ Idle' = Idle
<1> DEFINE kept == Unexpired(Registered)
<1>1. TypeOK /\ Ttl \in Nat \ {0}
    BY CapAssumption DEF IInv
<1>2. sessions' = [j \in kept |-> IF j = i THEN Renewed(i) ELSE sessions[j]]
    BY DEF Get
<1>3. kept \subseteq Registered /\ \A j \in kept : sessions[j].left > 0
    BY DEF Unexpired
<1>4. \A j \in kept : sessions'[j].left = IF j = i THEN Ttl ELSE sessions[j].left
    BY <1>1, <1>2, <1>3 DEF Renewed, TypeOK
<1>5. Registered' = kept
    BY <1>2 DEF Registered
<1>6. Unexpired(Registered)' = kept
    BY <1>1, <1>3, <1>4, <1>5 DEF Unexpired
<1>7. Idle' = [j \in kept |-> Ttl - sessions'[j].left]
    BY <1>6 DEF Idle
<1>8. Idle = [j \in kept |-> Ttl - sessions[j].left]
    BY DEF Idle
<1> HIDE DEF kept
<1>9. CASE i \in kept
    <2>1. \A j \in kept : Ttl - sessions'[j].left = IF j = i THEN 0 ELSE Ttl - sessions[j].left
        BY <1>1, <1>4
    <2>2. Idle' = [Idle EXCEPT ![i] = 0]
        BY <1>7, <1>8, <2>1
    <2>3. i \in DOMAIN Idle
        BY <1>8, <1>9
    <2> QED BY <2>2, <2>3 DEF Store!Use, Store!Live, Idle
<1>10. CASE i \notin kept
    BY <1>4, <1>7, <1>8, <1>10
<1> QED BY <1>9, <1>10

LEMMA DropRefines ==
    ASSUME NEW rest, rest \subseteq Registered,
           sessions' = [j \in rest |-> sessions[j]]
    PROVE  Idle' = [j \in rest \cap Unexpired(Registered) |-> Idle[j]]
<1> DEFINE live == rest \cap Unexpired(Registered)
<1>1. Registered' = rest
    BY DEF Registered
<1>2. \A j \in rest : sessions'[j].left = sessions[j].left
    OBVIOUS
<1>3. Unexpired(Registered)' = live
    BY <1>1, <1>2 DEF Unexpired
<1>4. Idle' = [j \in live |-> Ttl - sessions'[j].left]
    BY <1>3 DEF Idle
<1>5. \A j \in live : Idle[j] = Ttl - sessions[j].left
    BY DEF Idle
<1> QED BY <1>2, <1>4, <1>5

LEMMA EndRefines ==
    ASSUME IInv, NEW i \in Ids, SessionEnds(i) \/ InitializeFails(i)
    PROVE  Store!End(i) \/ Idle' = Idle
<1> DEFINE kept == Unexpired(Registered)
<1>1. DOMAIN Idle = kept /\ kept \subseteq Registered
    BY DEF Idle, Unexpired
<1>2. Idle' = [j \in (Registered \ {i}) \cap kept |-> Idle[j]]
    <2>1. sessions' = [j \in Registered \ {i} |-> sessions[j]]
        BY DEF SessionEnds, InitializeFails, KeptOf
    <2> QED BY <2>1, DropRefines
<1>3. (Registered \ {i}) \cap kept = kept \ {i}
    BY <1>1
<1>4. Idle' = [j \in kept \ {i} |-> Idle[j]]
    BY <1>2, <1>3
<1>5. CASE i \in kept
    BY <1>1, <1>4, <1>5 DEF Store!End, Store!Live, Store!Keep, Idle
<1>6. CASE i \notin kept
    <2>1. kept \ {i} = kept
        BY <1>6
    <2>2. Idle = [j \in kept |-> Idle[j]]
        BY DEF Idle
    <2> QED BY <1>4, <2>1, <2>2
<1> QED BY <1>5, <1>6

LEMMA CloseRefines == ASSUME IInv, ServerCloses PROVE Store!EndAll
<1>1. sessions' = [j \in {} |-> sessions[j]]
    BY DEF ServerCloses, KeptOf
<1>2. Idle' = [j \in {} \cap Unexpired(Registered) |-> Idle[j]]
    BY <1>1, DropRefines
<1>3. {} \cap Unexpired(Registered) = {}
    OBVIOUS
<1>4. Idle' = [j \in {} |-> Idle[j]]
    BY <1>2, <1>3
<1> QED BY <1>4 DEF Store!EndAll, Store!Keep, Idle

\* Registration opens a session, and evicts the least recently used exactly
\* when the store is full.
LEMMA InitializedRefines ==
    ASSUME IInv, NEW i \in Ids, Initialized(i) PROVE Store!Open(i)
<1> DEFINE kept == Unexpired(Registered)
           gone == Victims(kept)
           left == kept \ gone
<1>1. TypeOK /\ Ttl \in Nat \ {0}
    BY CapAssumption DEF IInv
<1>2. i \notin Registered
    BY DEF IInv, TypeOK, OpenIffKnown, Initialized
<1>3. /\ kept \subseteq Registered
      /\ Cardinality(kept) \in Nat /\ Cardinality(kept) <= MaxSessions
      /\ Cardinality(kept) < MaxSessions => gone = {}
      /\ Cardinality(kept) = MaxSessions =>
             \E x \in kept : gone = {x} /\ \A j \in kept : ~Earlier(j, x)
    BY MakeRoom
<1>4. DOMAIN Idle = kept /\ \A j \in kept : Idle[j] = Ttl - sessions[j].left
                                             /\ sessions[j].left \in 1 .. Ttl
    BY <1>1, IdleForm
<1>5. sessions' = [j \in left \cup {i} |->
                      IF j = i THEN [left |-> Ttl, rank |-> registrations] ELSE sessions[j]]
    BY DEF Initialized
<1> HIDE DEF kept, gone
<1>6. Registered' = left \cup {i}
    BY <1>5 DEF Registered
<1>7. sessions'[i].left = Ttl /\ \A j \in left : sessions'[j].left = sessions[j].left
    BY <1>2, <1>3, <1>5
<1>8. Unexpired(Registered)' = left \cup {i}
    <2>1. \A j \in left \cup {i} : sessions'[j].left > 0
        BY <1>1, <1>4, <1>7
    <2> QED BY <1>6, <2>1 DEF Unexpired
<1>9. Idle' = [j \in left \cup {i} |-> Ttl - sessions'[j].left]
    BY <1>8 DEF Idle
<1>10. \A j \in left \cup {i} : Ttl - sessions'[j].left = IF j = i THEN 0 ELSE Idle[j]
    BY <1>1, <1>2, <1>3, <1>4, <1>7
<1>11. Idle' = [j \in (DOMAIN Idle \ gone) \cup {i} |-> IF j = i THEN 0 ELSE Idle[j]]
    BY <1>4, <1>9, <1>10
<1>12. Cardinality(gone) = IF Cardinality(DOMAIN Idle) = MaxSessions THEN 1 ELSE 0
    <2>1. CASE Cardinality(kept) < MaxSessions
        <3>1. gone = {}
            BY <1>3, <2>1
        <3>2. Cardinality(gone) = 0
            BY <3>1, FS_EmptySet
        <3>3. Cardinality(kept) # MaxSessions
            BY <1>3, <2>1, CapAssumption
        <3> QED BY <1>4, <3>2, <3>3
    <2>2. CASE Cardinality(kept) = MaxSessions
        <3>1. PICK x \in kept : gone = {x}
            BY <1>3, <2>2
        <3>2. Cardinality(gone) = 1
            BY <3>1, FS_Singleton
        <3> QED BY <1>4, <2>2, <3>2
    <2> QED BY <1>3, <2>1, <2>2, CapAssumption
<1>13. gone \subseteq {x \in DOMAIN Idle : \A j \in DOMAIN Idle : Idle[j] <= Idle[x]}
    <2>1. CASE Cardinality(kept) < MaxSessions
        BY <1>3, <2>1
    <2>2. CASE Cardinality(kept) = MaxSessions
        <3>1. PICK x \in kept : gone = {x} /\ \A j \in kept : ~Earlier(j, x)
            BY <1>3, <2>2
        <3>2. \A j \in kept : ~(sessions[j].left < sessions[x].left)
            BY <3>1 DEF Earlier
        <3>3. ASSUME NEW j \in kept PROVE Idle[j] <= Idle[x]
            BY <1>1, <1>4, <3>2
        <3> QED BY <1>4, <3>1, <3>3
    <2> QED BY <1>3, <2>1, <2>2, CapAssumption
<1>14. i \notin DOMAIN Idle
    BY <1>2, <1>3, <1>4
<1>15. \E g \in SUBSET {x \in DOMAIN Idle : \A j \in DOMAIN Idle : Idle[j] <= Idle[x]} :
           /\ Cardinality(g) = IF Cardinality(DOMAIN Idle) = MaxSessions THEN 1 ELSE 0
           /\ Idle' = [j \in (DOMAIN Idle \ g) \cup {i} |-> IF j = i THEN 0 ELSE Idle[j]]
    BY <1>11, <1>12, <1>13
<1>16. \A S : Store!Cardinality(S) = Cardinality(S)
    BY DEF Store!Cardinality, Cardinality
<1> QED BY <1>14, <1>15, <1>16
        DEF Store!Open, Store!Live, Store!LeastRecentlyUsed, Idle

LEMMA NextRefines == IInv /\ [Next]_vars => Store!Next \/ Idle' = Idle
<1> SUFFICES ASSUME IInv, [Next]_vars PROVE Store!Next \/ Idle' = Idle
    OBVIOUS
<1>1. CASE Tick
    BY <1>1, TickRefines DEF Store!Next
<1>2. CASE ServerCloses
    BY <1>2, CloseRefines DEF Store!Next
<1>3. ASSUME NEW i \in Ids, Initialized(i) PROVE Store!Next
    BY <1>3, InitializedRefines DEF Store!Next
<1>4. ASSUME NEW i \in Ids, Request(i) \/ Delete(i) PROVE Store!Next \/ Idle' = Idle
    BY <1>4, GetRefines DEF Request, Delete, Store!Next
<1>5. ASSUME NEW i \in Ids, SessionEnds(i) \/ InitializeFails(i)
      PROVE  Store!Next \/ Idle' = Idle
    BY <1>5, EndRefines DEF Store!Next
<1>6. CASE UNCHANGED sessions
    BY <1>6 DEF Idle, Unexpired, Registered
<1>7. ASSUME NEW i \in Ids, Create(i) \/ InitializeRefused(i) \/ InitializeAnswered(i)
      PROVE  UNCHANGED sessions
    BY <1>7 DEF Create, InitializeRefused, InitializeAnswered
<1> QED BY <1>1, <1>2, <1>3, <1>4, <1>5, <1>6, <1>7 DEF Next, vars

-------------------------------------------------------------------------------
(* Theorems *)

\* The inductive invariant holds in every reachable state.
THEOREM Invariance == Spec => []IInv
BY InitIInv, NextIInv, PTL DEF Spec

\* The table never holds more than maxSessions sessions.
THEOREM CapHolds == Spec => []CapRespected
<1>1. IInv => CapRespected
    BY DEF IInv
<1> QED BY <1>1, Invariance, PTL

\* A session's two ends are open exactly while the table knows it; only those
\* whose initialize was refused stay open, in no table, and outlive the server.
THEOREM EndsClosed == Spec => []OpenIffKnown
<1>1. IInv => OpenIffKnown
    BY DEF IInv
<1> QED BY <1>1, Invariance, PTL

\* A request is answered by whether the store holds its session, pruned or not.
THEOREM AnswersSound == Spec => AnswersTellLive
<1>1. ASSUME NEW i \in Ids, Request(i) \/ Delete(i)
      PROVE  answer' = IF i \in Store!Live THEN 200 ELSE 404
    BY <1>1 DEF Request, Delete, Get, Store!Live
<1>2. Next => [\A i \in Ids : Request(i) \/ Delete(i) =>
                  answer' = IF i \in Store!Live THEN 200 ELSE 404]_vars
    BY <1>1
<1> QED BY <1>2, PTL DEF Spec, AnswersTellLive

\* HttpSessionRegistry implements the store of docs/operations.md.
THEOREM Refinement == Spec => ImplementsStore
<1>1. Init => Store!Init
    BY InitRefines
<1>2. IInv /\ [Next]_vars => [Store!Next]_Idle
    BY NextRefines
<1> QED BY <1>1, <1>2, Invariance, PTL DEF Spec, ImplementsStore, Store!Spec, Idle
===============================================================================
