---------------------------- MODULE PipelinesProofs ----------------------------
(***************************************************************************)
(* Proofs about module Pipelines, for any groups, projects, registrations, *)
(* calls and builds, whichever statements fail and whenever the process    *)
(* restarts.                                                               *)
(***************************************************************************)
EXTENDS Pipelines, TLAPS

\* A call in progress, with what a response leaves behind.
CallOK(h) ==
    /\ h = [tool |-> h.tool, fetches |-> h.fetches, rejected |-> h.rejected,
            answered |-> h.answered]
    /\ h.tool \in Tools \cup {"none"} /\ h.answered \in BOOLEAN
    /\ h.fetches \in [DOMAIN h.fetches -> FetchType]
    /\ DOMAIN h.fetches \subseteq Rows
    /\ DOMAIN h.fetches \subseteq DOMAIN azure_pipelines
    /\ h.rejected \subseteq Rows \ DOMAIN h.fetches
    /\ h.answered => /\ DOMAIN h.fetches # {}
                     /\ h.tool = "check_all_projects"
                     /\ \A i \in DOMAIN h.fetches : \E j \in h.rejected : j[1] = i[1]

\* latest is at least as far on as a build that was reported before.
Reported(build, latest) ==
    /\ build.build <= latest.build
    /\ Finished(build) /\ build.build = latest.build => Finished(latest)

\* A fetch asks for what is registered unless it was overtaken by a
\* registration, and what it has to record is not older than what is recorded
\* unless it was overtaken by a completion.
FetchOK(i, f) ==
    /\ ~f.replaced => f.id = azure_pipelines[i].id
    /\ Reported(f.run, remote[f.id])
    /\ f.phase = "returned" /\ f.run # NoBuild /\ ~Finished(f.run) =>
           \A k \in RunKeys(i, f.run) \cap DOMAIN pipeline_runs :
               Finished(pipeline_runs[k]) /\ pipeline_runs[k].from = f.id => f.overtaken

RemoteInv == remote \in [Definitions -> Build]

RowsInv ==
    /\ DOMAIN azure_pipelines \subseteq Rows
    /\ \A i \in DOMAIN azure_pipelines :
        \E s \in Sources, t \in BOOLEAN :
            azure_pipelines[i] = [source |-> s, id |-> IdOf(s, i[2]), readable |-> t]

NewestInv ==
    /\ \A g \in DOMAIN newest : newest[g] \in Registrations /\ newest[g].group = g
    /\ RegistrationWhole

RunsInv ==
    /\ DOMAIN pipeline_runs \subseteq Groups \X PipelineNames \X Nat
    /\ pipeline_runs \in
          [DOMAIN pipeline_runs ->
              [status: RunStatuses, result: Results \cup {"none"}, from: Definitions]]
    /\ \A k \in DOMAIN pipeline_runs :
           Finished(pipeline_runs[k]) =>
               Reported([build |-> k[3], result |-> pipeline_runs[k].result],
                        remote[pipeline_runs[k].from])

CallsInv ==
    /\ DOMAIN calls = Calls
    /\ \A c \in Calls : CallOK(calls[c])
    /\ \A c \in Calls : \A i \in DOMAIN calls[c].fetches : FetchOK(i, calls[c].fetches[i])

IInv == RemoteInv /\ RowsInv /\ NewestInv /\ RunsInv /\ CallsInv

-------------------------------------------------------------------------------
(* Operators *)

LEMMA IdleForm == CallOK(Idle) /\ DOMAIN Idle.fetches = {}
BY DEF CallOK, Idle, EmptyTable

\* An id that is resolved is a definition.
LEMMA ResolvedId ==
    ASSUME RowsInv, NEW i \in DOMAIN azure_pipelines, azure_pipelines[i].id # NoId
    PROVE  azure_pipelines[i].id \in Definitions
<1>1. PICK s \in Sources, t \in BOOLEAN :
          azure_pipelines[i] = [source |-> s, id |-> IdOf(s, i[2]), readable |-> t]
    BY DEF RowsInv
<1>2. i[2] \in PipelineNames
    BY DEF RowsInv, Rows
<1>3. azure_pipelines[i].id = <<s, i[2]>> /\ i[2] \in Listed[s]
    BY <1>1 DEF IdOf
<1>4. <<s, i[2]>> \in Sources \X PipelineNames /\ <<s, i[2]>>[1] = s /\ <<s, i[2]>>[2] = i[2]
    BY <1>2
<1> QED BY <1>3, <1>4 DEF Definitions

\* A fetch that starts is sound.
LEMMA NewFetchOK ==
    ASSUME RemoteInv, RowsInv, NEW i \in DOMAIN azure_pipelines,
           azure_pipelines[i].id # NoId, NEW phase \in {"asking", "logs"}
    PROVE  /\ NewFetch(phase, azure_pipelines[i]) \in FetchType
           /\ FetchOK(i, NewFetch(phase, azure_pipelines[i]))
<1> DEFINE d == azure_pipelines[i].id
<1>1. d \in Definitions /\ NoBuild \in Build
    BY ResolvedId DEF NoBuild, Build
<1>2. remote[d].build \in Nat /\ ~Finished(NoBuild) /\ NoBuild.build = 0
    BY <1>1 DEF RemoteInv, Build, NoBuild, Finished
<1>3. Reported(NoBuild, remote[d])
    BY <1>2 DEF Reported
<1>4. NewFetch(phase, azure_pipelines[i]) \in FetchType
    BY <1>1 DEF NewFetch, FetchType
<1>5. FetchOK(i, NewFetch(phase, azure_pipelines[i]))
    BY <1>3 DEF NewFetch, FetchOK
<1> QED BY <1>4, <1>5

\* The rows of a group that a registration named.
Whole(reg, g, rows) ==
    /\ Named(reg) \subseteq DOMAIN rows
    /\ \A n \in reg.names :
        rows[<<g, n>>] \in {Row(reg, n), WithoutKey(Row(reg, n))}
    /\ \A n, m \in reg.names : rows[<<g, n>>].readable = rows[<<g, m>>].readable

\* What the two uses of Marked do to a call.
ReplacedIn(handlers, is) == Marked(handlers, is, Replaced)

OvertakenIn(handlers, is) == Marked(handlers, is, Overtaken)

SameCall(new, old) ==
    /\ new.tool = old.tool /\ new.rejected = old.rejected /\ new.answered = old.answered
    /\ DOMAIN new.fetches = DOMAIN old.fetches

LEMMA MarkedReplaced ==
    ASSUME NEW handlers, NEW is, NEW c \in Calls, CallOK(handlers[c])
    PROVE  /\ SameCall(ReplacedIn(handlers, is)[c], handlers[c])
           /\ \A i \in DOMAIN handlers[c].fetches :
                 ReplacedIn(handlers, is)[c].fetches[i] =
                     IF i \in is THEN Replaced(handlers[c].fetches[i])
                                ELSE handlers[c].fetches[i]
           /\ CallOK(ReplacedIn(handlers, is)[c])
<1> DEFINE old == handlers[c]
           fs == [i \in DOMAIN old.fetches |->
                     IF i \in is THEN Replaced(old.fetches[i]) ELSE old.fetches[i]]
           new == ReplacedIn(handlers, is)[c]
<1>1. old = [tool |-> old.tool, fetches |-> old.fetches, rejected |-> old.rejected,
             answered |-> old.answered]
    BY DEF CallOK
<1>2. new = [tool |-> old.tool, fetches |-> fs, rejected |-> old.rejected,
             answered |-> old.answered]
    BY <1>1 DEF ReplacedIn, Marked
<1>3. fs \in [DOMAIN old.fetches -> FetchType]
    BY DEF CallOK, FetchType, Replaced
<1>4. CallOK(new)
    BY <1>2, <1>3 DEF CallOK
<1>5. SameCall(new, old)
    BY <1>2 DEF SameCall
<1>6. \A i \in DOMAIN old.fetches : new.fetches[i] = fs[i]
    BY <1>2
<1> QED BY <1>4, <1>5, <1>6

LEMMA MarkedOvertaken ==
    ASSUME NEW handlers, NEW is, NEW c \in Calls, CallOK(handlers[c])
    PROVE  /\ SameCall(OvertakenIn(handlers, is)[c], handlers[c])
           /\ \A i \in DOMAIN handlers[c].fetches :
                 OvertakenIn(handlers, is)[c].fetches[i] =
                     IF i \in is THEN Overtaken(handlers[c].fetches[i])
                                ELSE handlers[c].fetches[i]
           /\ CallOK(OvertakenIn(handlers, is)[c])
<1> DEFINE old == handlers[c]
           fs == [i \in DOMAIN old.fetches |->
                     IF i \in is THEN Overtaken(old.fetches[i]) ELSE old.fetches[i]]
           new == OvertakenIn(handlers, is)[c]
<1>1. old = [tool |-> old.tool, fetches |-> old.fetches, rejected |-> old.rejected,
             answered |-> old.answered]
    BY DEF CallOK
<1>2. new = [tool |-> old.tool, fetches |-> fs, rejected |-> old.rejected,
             answered |-> old.answered]
    BY <1>1 DEF OvertakenIn, Marked
<1>3. fs \in [DOMAIN old.fetches -> FetchType]
    BY DEF CallOK, FetchType, Overtaken
<1>4. CallOK(new)
    BY <1>2, <1>3 DEF CallOK
<1>5. SameCall(new, old)
    BY <1>2 DEF SameCall
<1>6. \A i \in DOMAIN old.fetches : new.fetches[i] = fs[i]
    BY <1>2
<1> QED BY <1>4, <1>5, <1>6

-------------------------------------------------------------------------------
(* The invariant: steps that do not touch a call *)

LEMMA InitIInv == Init => IInv
<1> SUFFICES ASSUME Init PROVE IInv
    OBVIOUS
<1>1. RemoteInv
    BY DEF Init, RemoteInv, NoBuild, Build
<1>2. RowsInv /\ NewestInv /\ RunsInv
    <2>1. pipeline_runs = [n \in {} |-> n] /\ newest = [n \in {} |-> n]
          /\ azure_pipelines = [n \in {} |-> n]
        BY DEF Init, EmptyTable
    <2>2. RowsInv /\ NewestInv
        BY <2>1 DEF RowsInv, NewestInv, RegistrationWhole
    <2>3. RunsInv
        BY <2>1 DEF RunsInv
    <2> QED BY <2>2, <2>3
<1>3. CallsInv
    BY IdleForm DEF Init, CallsInv
<1> QED BY <1>1, <1>2, <1>3 DEF IInv

\* Azure goes on.
LEMMA BuildsKeepIInv ==
    ASSUME IInv, NEW d \in Definitions, BuildStarts(d) \/ BuildCompletes(d) PROVE IInv'
<1>1. UNCHANGED <<azure_pipelines, pipeline_runs, calls, newest>>
    BY DEF BuildStarts, BuildCompletes
<1>2. remote[d] \in Build /\ \A e \in Definitions : remote[e].build \in Nat
    BY DEF IInv, RemoteInv, Build
<1>3. PICK b \in Build : /\ remote' = [remote EXCEPT ![d] = b]
                         /\ \/ b.build = remote[d].build + 1
                            \/ b.build = remote[d].build /\ Finished(b)
    <2>1. CASE BuildStarts(d)
        <3>1. [build |-> remote[d].build + 1, result |-> "none"] \in Build
            BY <1>2 DEF Build
        <3> QED BY <2>1, <3>1 DEF BuildStarts
    <2>2. CASE BuildCompletes(d)
        <3>1. PICK r \in Results : remote' = [remote EXCEPT ![d].result = r]
            BY <2>2 DEF BuildCompletes
        <3> DEFINE b == [remote[d] EXCEPT !.result = r]
        <3>2. b \in Build /\ b.build = remote[d].build /\ b.result = r
            BY <1>2 DEF Build
        <3>3. Finished(b)
            BY <3>2, ResultAssumption DEF Finished
        <3>4. remote' = [remote EXCEPT ![d] = b]
            BY <3>1
        <3> QED BY <3>2, <3>3, <3>4
    <2> QED BY <2>1, <2>2
<1>4. RemoteInv' /\ remote'[d] = b /\ \A e \in Definitions \ {d} : remote'[e] = remote[e]
    BY <1>3 DEF IInv, RemoteInv
<1>5. ASSUME NEW x, x.build \in Nat, NEW e \in Definitions, Reported(x, remote[e])
      PROVE  Reported(x, remote'[e])
    BY <1>2, <1>3, <1>4, <1>5 DEF Reported
<1>6. RowsInv' /\ NewestInv'
    BY <1>1 DEF IInv, RowsInv, NewestInv, RegistrationWhole
<1>7. RunsInv'
    <2>1. ASSUME NEW k \in DOMAIN pipeline_runs, Finished(pipeline_runs[k])
          PROVE  Reported([build |-> k[3], result |-> pipeline_runs[k].result],
                          remote'[pipeline_runs[k].from])
        BY <1>5, <2>1 DEF IInv, RunsInv
    <2> QED BY <1>1, <2>1 DEF IInv, RunsInv
<1>8. CallsInv'
    <2>1. ASSUME NEW c \in Calls, NEW i \in DOMAIN calls[c].fetches
          PROVE  FetchOK(i, calls[c].fetches[i])'
        <3> DEFINE f == calls[c].fetches[i]
        <3>1. FetchOK(i, f) /\ f \in FetchType
            BY DEF IInv, CallsInv, CallOK
        <3>2. f.run.build \in Nat /\ f.id \in Definitions
            BY <3>1 DEF FetchType, Build
        <3>3. Reported(f.run, remote'[f.id])
            BY <1>5, <3>1, <3>2 DEF FetchOK
        <3> QED BY <1>1, <3>1, <3>3 DEF FetchOK, RunKeys
    <2> QED BY <1>1, <2>1 DEF IInv, CallsInv, CallOK
<1> QED BY <1>4, <1>6, <1>7, <1>8 DEF IInv

\* A registration replaces the rows it names, and marks the fetches under way.
LEMMA RegisterKeepsIInv ==
    ASSUME IInv, NEW reg \in Registrations, Register(reg) PROVE IInv'
<1> DEFINE is == Named(reg)
<1>1. /\ azure_pipelines' = [i \in DOMAIN azure_pipelines \cup is |->
                                IF i \in is THEN Row(reg, i[2]) ELSE azure_pipelines[i]]
      /\ newest' = [g \in DOMAIN newest \cup {reg.group} |->
                       IF g = reg.group THEN reg ELSE newest[g]]
      /\ calls' = ReplacedIn(calls, is)
      /\ remote' = remote /\ pipeline_runs' = pipeline_runs
    BY DEF Register, Stored, ReplacedIn, Marked
<1>2. /\ reg.group \in Groups /\ reg.source \in Sources
      /\ \A n \in reg.names : n \in PipelineNames
    BY RegistrationAssumption
<1>3. is \subseteq Rows
    BY <1>2 DEF Named, Rows
<1>4. RowsInv'
    <2>1. DOMAIN azure_pipelines' \subseteq Rows
        BY <1>1, <1>3 DEF IInv, RowsInv
    <2>2. ASSUME NEW i \in DOMAIN azure_pipelines'
          PROVE  \E s \in Sources, t \in BOOLEAN :
                    azure_pipelines'[i] = [source |-> s, id |-> IdOf(s, i[2]), readable |-> t]
        <3>1. CASE i \in is
            BY <1>1, <1>2, <3>1 DEF Row
        <3>2. CASE i \notin is
            <4>1. i \in DOMAIN azure_pipelines /\ azure_pipelines'[i] = azure_pipelines[i]
                BY <1>1, <3>2
            <4> QED BY <4>1 DEF IInv, RowsInv
        <3> QED BY <3>1, <3>2
    <2> QED BY <2>1, <2>2 DEF RowsInv
<1>5. NewestInv'
    <2>1. \A g \in DOMAIN newest' : newest'[g] \in Registrations /\ newest'[g].group = g
        BY <1>1 DEF IInv, NewestInv
    <2>2. Whole(reg, reg.group, azure_pipelines')
        <3>1. \A n \in reg.names : <<reg.group, n>> \in is
            BY DEF Named
        <3>2. \A n \in reg.names : azure_pipelines'[<<reg.group, n>>] = Row(reg, n)
            BY <1>1, <3>1
        <3>3. \A n \in reg.names : Row(reg, n).readable = TRUE
            BY DEF Row
        <3>4. Named(reg) \subseteq DOMAIN azure_pipelines'
            BY <1>1
        <3> HIDE DEF is
        <3> QED BY <3>2, <3>3, <3>4 DEF Whole
    <2>3. ASSUME NEW g \in DOMAIN newest, g # reg.group
          PROVE  Whole(newest[g], g, azure_pipelines')
        <3>1. Whole(newest[g], g, azure_pipelines) /\ newest[g].group = g
            BY DEF IInv, NewestInv, RegistrationWhole, Whole
        <3>2. \A n : <<g, n>> \notin is
            BY <2>3 DEF Named
        <3>3. \A n \in newest[g].names : <<g, n>> \in DOMAIN azure_pipelines
            BY <3>1 DEF Whole, Named
        <3>4. \A n \in newest[g].names : azure_pipelines'[<<g, n>>] = azure_pipelines[<<g, n>>]
            BY <1>1, <3>2, <3>3
        <3>5. DOMAIN azure_pipelines \subseteq DOMAIN azure_pipelines'
            BY <1>1
        <3> HIDE DEF is
        <3> QED BY <3>1, <3>4, <3>5 DEF Whole
    <2>4. ASSUME NEW g \in DOMAIN newest' PROVE Whole(newest'[g], g, azure_pipelines')
        <3>1. CASE g = reg.group
            <4>1. newest'[g] = reg
                BY <1>1, <3>1
            <4> QED BY <2>2, <3>1, <4>1
        <3>2. CASE g # reg.group
            <4>1. g \in DOMAIN newest /\ newest'[g] = newest[g]
                BY <1>1, <3>2
            <4> QED BY <2>3, <3>2, <4>1
        <3> QED BY <3>1, <3>2
    <2> QED BY <2>1, <2>4 DEF NewestInv, RegistrationWhole, Whole
<1>6. RunsInv' /\ RemoteInv'
    BY <1>1 DEF IInv, RunsInv, RemoteInv
<1>7. CallsInv'
    <2>1. ASSUME NEW c \in Calls
          PROVE  /\ CallOK(calls[c]) /\ CallOK(ReplacedIn(calls, is)[c])
                 /\ SameCall(ReplacedIn(calls, is)[c], calls[c])
                 /\ \A i \in DOMAIN calls[c].fetches :
                       ReplacedIn(calls, is)[c].fetches[i] =
                           IF i \in is THEN Replaced(calls[c].fetches[i])
                                      ELSE calls[c].fetches[i]
        <3>1. CallOK(calls[c])
            BY DEF IInv, CallsInv
        <3> HIDE DEF is
        <3> QED BY <3>1, MarkedReplaced
    <2>2. DOMAIN calls' = Calls
        BY <1>1 DEF ReplacedIn, Marked
    <2>3. DOMAIN azure_pipelines \subseteq DOMAIN azure_pipelines'
        BY <1>1
    <2> HIDE DEF is
    <2>4. ASSUME NEW c \in Calls PROVE CallOK(calls[c])'
        BY <1>1, <2>1, <2>3 DEF CallOK
    <2>5. ASSUME NEW c \in Calls, NEW i \in DOMAIN calls'[c].fetches
          PROVE  FetchOK(i, calls[c].fetches[i])'
        <3> DEFINE f == calls[c].fetches[i]
        <3>1. i \in DOMAIN calls[c].fetches
            BY <1>1, <2>1, <2>5 DEF SameCall
        <3>2. FetchOK(i, f) /\ i \in DOMAIN azure_pipelines /\ f \in FetchType
            BY <2>1, <3>1 DEF IInv, CallsInv, CallOK
        <3>3. calls'[c].fetches[i] = IF i \in is THEN Replaced(f) ELSE f
            BY <1>1, <2>1, <3>1
        <3>4. Replaced(f).replaced /\ Replaced(f).run = f.run /\ Replaced(f).id = f.id
              /\ Replaced(f).phase = f.phase /\ Replaced(f).overtaken = f.overtaken
            BY <3>2 DEF Replaced, FetchType
        <3>5. CASE i \in is
            BY <1>1, <3>2, <3>3, <3>4, <3>5 DEF FetchOK, RunKeys
        <3>6. CASE i \notin is
            <4>1. azure_pipelines'[i] = azure_pipelines[i]
                BY <1>1, <3>2, <3>6
            <4> QED BY <1>1, <3>2, <3>3, <3>6, <4>1 DEF FetchOK, RunKeys
        <3> QED BY <3>5, <3>6
    <2> QED BY <2>2, <2>4, <2>5 DEF CallsInv
<1> QED BY <1>4, <1>5, <1>6, <1>7 DEF IInv

LEMMA RestartKeepsIInv ==
    ASSUME IInv, Restart PROVE IInv'
<1>1. /\ calls' = [c \in Calls |-> Idle]
      /\ remote' = remote /\ pipeline_runs' = pipeline_runs /\ newest' = newest
      /\ \/ azure_pipelines' = azure_pipelines
         \/ azure_pipelines' = [i \in DOMAIN azure_pipelines |->
                                   WithoutKey(azure_pipelines[i])]
    BY DEF Restart
<1>2. DOMAIN azure_pipelines' = DOMAIN azure_pipelines
    BY <1>1
<1>3. RemoteInv' /\ RunsInv'
    BY <1>1 DEF IInv, RemoteInv, RunsInv
<1>4. CallsInv'
    BY <1>1, IdleForm DEF CallsInv, CallOK, Idle, EmptyTable
<1>5. RowsInv'
    <2>1. ASSUME NEW i \in DOMAIN azure_pipelines
          PROVE  \E s \in Sources, t \in BOOLEAN :
                    azure_pipelines'[i] = [source |-> s, id |-> IdOf(s, i[2]), readable |-> t]
        <3>1. PICK s \in Sources, t \in BOOLEAN :
                  azure_pipelines[i] = [source |-> s, id |-> IdOf(s, i[2]), readable |-> t]
            BY DEF IInv, RowsInv
        <3>2. azure_pipelines'[i] \in {azure_pipelines[i],
                                       WithoutKey(azure_pipelines[i])}
            BY <1>1
        <3>3. WithoutKey(azure_pipelines[i]) =
                  [source |-> s, id |-> IdOf(s, i[2]), readable |-> FALSE]
            BY <3>1 DEF WithoutKey
        <3> QED BY <3>1, <3>2, <3>3
    <2> QED BY <1>2, <2>1 DEF IInv, RowsInv
<1>6. NewestInv'
    <2>1. CASE azure_pipelines' = azure_pipelines
        BY <1>1, <2>1 DEF IInv, NewestInv, RegistrationWhole
    <2>2. CASE azure_pipelines' = [i \in DOMAIN azure_pipelines |->
                                      WithoutKey(azure_pipelines[i])]
        <3>1. ASSUME NEW g \in DOMAIN newest PROVE Whole(newest[g], g, azure_pipelines')
            <4>1. Whole(newest[g], g, azure_pipelines) /\ newest[g].group = g
                BY DEF IInv, NewestInv, RegistrationWhole, Whole
            <4>2. ASSUME NEW n \in newest[g].names
                  PROVE  /\ azure_pipelines'[<<g, n>>] = WithoutKey(Row(newest[g], n))
                         /\ azure_pipelines'[<<g, n>>].readable = FALSE
                <5>1. <<g, n>> \in DOMAIN azure_pipelines
                    BY <4>1 DEF Whole, Named
                <5>2. azure_pipelines'[<<g, n>>] = WithoutKey(azure_pipelines[<<g, n>>])
                    BY <2>2, <5>1
                <5>3. azure_pipelines[<<g, n>>] \in
                          {Row(newest[g], n), WithoutKey(Row(newest[g], n))}
                    BY <4>1 DEF Whole
                <5>4. Row(newest[g], n) = [source |-> newest[g].source,
                                           id |-> IdOf(newest[g].source, n), readable |-> TRUE]
                    BY DEF Row
                <5> DEFINE w == WithoutKey(Row(newest[g], n))
                <5>5. w = [source |-> newest[g].source,
                           id |-> IdOf(newest[g].source, n), readable |-> FALSE]
                    BY <5>4 DEF WithoutKey
                <5>6. WithoutKey(w) = w /\ w.readable = FALSE
                    BY <5>5 DEF WithoutKey
                <5> HIDE DEF w
                <5>7. WithoutKey(azure_pipelines[<<g, n>>]) = w
                    <6>1. CASE azure_pipelines[<<g, n>>] = Row(newest[g], n)
                        BY <6>1 DEF w
                    <6>2. CASE azure_pipelines[<<g, n>>] = w
                        BY <5>6, <6>2
                    <6> QED BY <5>3, <6>1, <6>2 DEF w
                <5> QED BY <5>2, <5>6, <5>7 DEF w
            <4>3. Named(newest[g]) \subseteq DOMAIN azure_pipelines'
                BY <1>2, <4>1 DEF Whole
            <4> QED BY <4>2, <4>3 DEF Whole
        <3> QED BY <1>1, <3>1 DEF IInv, NewestInv, RegistrationWhole, Whole
    <2> QED BY <1>1, <2>1, <2>2
<1> QED BY <1>3, <1>4, <1>5, <1>6 DEF IInv

-------------------------------------------------------------------------------
(* The invariant: steps of one call *)

\* A step that gives one call a sound state and leaves the tables alone.
LEMMA CallStep ==
    ASSUME IInv, NEW c \in Calls, NEW h, CallOK(h),
           \A i \in DOMAIN h.fetches : FetchOK(i, h.fetches[i]),
           calls' = [calls EXCEPT ![c] = h],
           UNCHANGED <<remote, azure_pipelines, pipeline_runs, newest>>
    PROVE  IInv'
<1>1. RemoteInv' /\ RowsInv' /\ NewestInv' /\ RunsInv'
    BY DEF IInv, RemoteInv, RowsInv, NewestInv, RegistrationWhole, RunsInv
<1>2. DOMAIN calls' = Calls /\ calls'[c] = h /\ \A x \in Calls \ {c} : calls'[x] = calls[x]
    BY DEF IInv, CallsInv
<1>3. \A x \in Calls : CallOK(calls'[x])
    BY <1>2 DEF IInv, CallsInv
<1>4. \A x \in Calls : \A i \in DOMAIN calls'[x].fetches : FetchOK(i, calls'[x].fetches[i])
    BY <1>2 DEF IInv, CallsInv
<1>5. CallsInv'
    BY <1>2, <1>3, <1>4 DEF CallsInv, CallOK, FetchOK
<1> QED BY <1>1, <1>5 DEF IInv

\* What is left of a call when an item settles.
Rest(old, h) ==
    \A j \in DOMAIN h.fetches : j \in DOMAIN old.fetches /\ h.fetches[j] = old.fetches[j]

LEMMA SettleOK ==
    ASSUME CallsInv, NEW c \in Calls, NEW i \in DOMAIN calls[c].fetches,
           NEW rejected, rejected \subseteq {i}
    PROVE  \E h : CallOK(h) /\ Rest(calls[c], h) /\ Settle(c, i, rejected) = [calls EXCEPT ![c] = h]
<1> DEFINE old == calls[c]
           rest == DOMAIN old.fetches \ {i}
           fs == [j \in rest |-> old.fetches[j]]
           less == [tool |-> old.tool, fetches |-> fs, rejected |-> old.rejected \cup rejected,
                    answered |-> old.answered]
<1>1. CallOK(old)
    BY DEF CallsInv
<1>3. less.tool = old.tool /\ less.fetches = fs /\ less.answered = old.answered
      /\ less.rejected = old.rejected \cup rejected
    OBVIOUS
<1>4. CASE old.answered /\ rest = {}
    <2>1. Settle(c, i, rejected) = [calls EXCEPT ![c] = Idle]
        BY <1>4 DEF Settle
    <2>2. Rest(old, Idle)
        BY IdleForm DEF Rest
    <2> QED BY <2>1, <2>2, IdleForm
<1>5. CASE ~(old.answered /\ rest = {})
    <2>1. Settle(c, i, rejected) = [calls EXCEPT ![c] = less]
        BY <1>5 DEF Settle
    <2>2. Rest(old, less)
        BY <1>3 DEF Rest
    <2>3. fs \in [rest -> FetchType] /\ DOMAIN fs = rest
        BY <1>1 DEF CallOK
    <2>4. old.rejected \cup rejected \subseteq Rows \ rest
        BY <1>1 DEF CallOK
    <2>5. old.answered => /\ rest # {}
                          /\ old.tool = "check_all_projects"
                          /\ \A j \in rest : \E k \in old.rejected \cup rejected : k[1] = j[1]
        BY <1>1, <1>5 DEF CallOK
    <2>6. CallOK(less)
        <3>1. less = [tool |-> less.tool, fetches |-> less.fetches, rejected |-> less.rejected,
                      answered |-> less.answered]
            OBVIOUS
        <3> HIDE DEF less, fs
        <3> QED BY <1>1, <1>3, <2>3, <2>4, <2>5, <3>1 DEF CallOK
    <2> QED BY <2>1, <2>2, <2>6
<1> QED BY <1>4, <1>5

\* The steps that only settle an item.
LEMMA SettleKeepsIInv ==
    ASSUME IInv, NEW c \in Calls, NEW i \in DOMAIN calls[c].fetches,
           NEW rejected, rejected \subseteq {i}, calls' = Settle(c, i, rejected),
           UNCHANGED <<remote, azure_pipelines, pipeline_runs, newest>>
    PROVE  IInv'
<1>1. PICK h : CallOK(h) /\ Rest(calls[c], h) /\ Settle(c, i, rejected) = [calls EXCEPT ![c] = h]
    BY SettleOK DEF IInv
<1>2. \A j \in DOMAIN h.fetches : FetchOK(j, h.fetches[j])
    BY <1>1 DEF Rest, IInv, CallsInv
<1> QED BY <1>1, <1>2, CallStep

\* A call is given the fetches of the rows it asks for.
LEMMA StartKeepsIInv ==
    ASSUME IInv, NEW c \in Calls, NEW tool \in Tools, NEW asked, NEW rejected, NEW fs,
           asked \subseteq Resolved(DOMAIN azure_pipelines), rejected \subseteq Rows \ asked,
           fs = [i \in asked |-> fs[i]],
           \A i \in asked : \E phase \in {"asking", "logs"} :
               fs[i] = NewFetch(phase, azure_pipelines[i]),
           calls' = [calls EXCEPT ![c] =
               [tool |-> tool, fetches |-> fs, rejected |-> rejected, answered |-> FALSE]],
           UNCHANGED <<remote, azure_pipelines, pipeline_runs, newest>>
    PROVE  IInv'
<1> DEFINE h == [tool |-> tool, fetches |-> fs, rejected |-> rejected, answered |-> FALSE]
<1>1. asked \subseteq DOMAIN azure_pipelines /\ asked \subseteq Rows
    BY DEF Resolved, IInv, RowsInv
<1>2. \A i \in asked : fs[i] \in FetchType /\ FetchOK(i, fs[i])
    BY NewFetchOK DEF Resolved, IInv
<1>3. fs \in [asked -> FetchType] /\ DOMAIN fs = asked
    BY <1>2
<1>4. h.tool = tool /\ h.fetches = fs /\ h.rejected = rejected /\ h.answered = FALSE
    OBVIOUS
<1>5. \A i \in DOMAIN h.fetches : FetchOK(i, h.fetches[i])
    BY <1>2, <1>3
<1>6. calls' = [calls EXCEPT ![c] = h]
    OBVIOUS
<1>7. CallOK(h)
    <2>1. h = [tool |-> h.tool, fetches |-> h.fetches, rejected |-> h.rejected,
               answered |-> h.answered]
        OBVIOUS
    <2> HIDE DEF h
    <2> QED BY <1>1, <1>3, <1>4, <2>1 DEF CallOK
<1> HIDE DEF h
<1> QED BY <1>5, <1>6, <1>7, CallStep

LEMMA StartFetchesKeepsIInv ==
    ASSUME IInv, NEW c \in Calls, NEW tool \in Tools, NEW gs,
           StartFetches(c, tool, RowsOf(gs))
    PROVE  IInv'
<1> DEFINE is == RowsOf(gs)
           asked == Readable(Resolved(is))
<1>1. is \subseteq DOMAIN azure_pipelines /\ DOMAIN azure_pipelines \subseteq Rows
    BY DEF RowsOf, IInv, RowsInv
<1>2. asked \subseteq Resolved(DOMAIN azure_pipelines)
    BY <1>1 DEF Readable, Resolved
<1>3. Resolved(is) \ asked \subseteq Rows \ asked
    BY <1>1 DEF Resolved
<1> DEFINE fs == [i \in asked |-> NewFetch("asking", azure_pipelines[i])]
           rejected == Resolved(is) \ asked
<1>4. /\ calls' = [calls EXCEPT ![c] =
              [tool |-> tool, fetches |-> fs, rejected |-> rejected, answered |-> FALSE]]
      /\ UNCHANGED <<remote, azure_pipelines, pipeline_runs, newest>>
    BY DEF StartFetches
<1>5. /\ fs = [i \in asked |-> fs[i]]
      /\ \A i \in asked : \E phase \in {"asking", "logs"} :
            fs[i] = NewFetch(phase, azure_pipelines[i])
    OBVIOUS
<1> HIDE DEF asked, is, fs, rejected
<1> QED BY <1>2, <1>3, <1>4, <1>5, StartKeepsIInv DEF rejected

LEMMA LogsKeepIInv ==
    ASSUME IInv, NEW c \in Calls, NEW i, GetPipelineLogs(c, i) PROVE IInv'
<1> DEFINE asked == {i}
           none == {}
           tool == "get_pipeline_logs"
<1>1. asked \subseteq Resolved(DOMAIN azure_pipelines)
    BY DEF GetPipelineLogs, Readable
<1>2. PICK phase \in {"asking", "logs"} :
          calls' = [calls EXCEPT ![c] =
              [tool     |-> tool,
               fetches  |-> [j \in asked |-> NewFetch(phase, azure_pipelines[j])],
               rejected |-> none,
               answered |-> FALSE]]
    BY DEF GetPipelineLogs
<1> DEFINE fs == [j \in asked |-> NewFetch(phase, azure_pipelines[j])]
<1>3. UNCHANGED <<remote, azure_pipelines, pipeline_runs, newest>>
    BY DEF GetPipelineLogs
<1>4. tool \in Tools /\ none \subseteq Rows \ asked
    BY DEF Tools
<1>5. /\ fs = [j \in asked |-> fs[j]]
      /\ \A j \in asked : \E x \in {"asking", "logs"} :
            fs[j] = NewFetch(x, azure_pipelines[j])
    OBVIOUS
<1>6. calls' = [calls EXCEPT ![c] =
          [tool |-> tool, fetches |-> fs, rejected |-> none, answered |-> FALSE]]
    BY <1>2
<1> HIDE DEF asked, none, tool, fs
<1> QED BY <1>1, <1>3, <1>4, <1>5, <1>6, StartKeepsIInv

\* An answer arrives, or null: nothing older than what was recorded before.
LEMMA ReturnedKeepsIInv ==
    ASSUME IInv, NEW c \in Calls, NEW i \in DOMAIN calls[c].fetches, NEW b \in Build,
           b \in {NoBuild, remote[Fetch(c, i).id]}, Returned(c, i, b),
           UNCHANGED <<remote, azure_pipelines, pipeline_runs, newest>>
    PROVE  IInv'
<1> DEFINE old == calls[c]
           f == old.fetches[i]
           f1 == [f EXCEPT !.phase = "returned", !.run = b]
           fs == [old.fetches EXCEPT ![i] = f1]
           h == [tool |-> old.tool, fetches |-> fs, rejected |-> old.rejected,
                 answered |-> old.answered]
<1>1. CallOK(old) /\ FetchOK(i, f) /\ f \in FetchType
    BY DEF IInv, CallsInv, CallOK
<1>2. /\ f1 \in FetchType /\ f1.phase = "returned" /\ f1.run = b
      /\ f1.id = f.id /\ f1.overtaken = f.overtaken /\ f1.replaced = f.replaced
    BY <1>1 DEF FetchType
<1>3. old = [tool |-> old.tool, fetches |-> old.fetches, rejected |-> old.rejected,
             answered |-> old.answered]
    BY <1>1 DEF CallOK
<1>4. old.fetches \in [DOMAIN old.fetches -> FetchType]
    BY <1>1 DEF CallOK
<1>5. calls' = [calls EXCEPT ![c] = h]
    <2>1. calls' = [calls EXCEPT ![c].fetches[i] = f1]
        BY DEF Returned
    <2>2. calls' = [calls EXCEPT ![c] = [old EXCEPT !.fetches = fs]]
        <3> HIDE DEF f1
        <3> QED BY <2>1
    <2>3. [old EXCEPT !.fetches = fs] = h
        <3> HIDE DEF fs
        <3> QED BY <1>3
    <2> HIDE DEF h
    <2> QED BY <2>2, <2>3
<1>6. CallOK(h)
    <2>1. fs \in [DOMAIN old.fetches -> FetchType] /\ DOMAIN fs = DOMAIN old.fetches
        BY <1>2, <1>4
    <2>2. h.tool = old.tool /\ h.fetches = fs /\ h.rejected = old.rejected
          /\ h.answered = old.answered
        OBVIOUS
    <2>3. h = [tool |-> h.tool, fetches |-> h.fetches, rejected |-> h.rejected,
               answered |-> h.answered]
        OBVIOUS
    <2> HIDE DEF h, fs
    <2> QED BY <1>1, <2>1, <2>2, <2>3 DEF CallOK
<1>7. FetchOK(i, f1)
    <2>1. f.id \in Definitions /\ remote[f.id] \in Build
        BY <1>1 DEF FetchType, IInv, RemoteInv
    <2>2. CASE b = NoBuild
        <3>1. ~Finished(NoBuild) /\ NoBuild.build = 0 /\ remote[f.id].build \in Nat
            BY <2>1 DEF Finished, NoBuild, Build
        <3>2. Reported(NoBuild, remote[f.id])
            BY <3>1 DEF Reported
        <3> HIDE DEF f1
        <3> QED BY <1>1, <1>2, <2>2, <3>2 DEF FetchOK
    <2>3. CASE b = remote[f.id]
        <3>1. b.build \in Nat
            BY DEF Build
        <3>2. Reported(b, remote[f.id])
            BY <2>3, <3>1 DEF Reported
        <3>3. ASSUME NEW k \in RunKeys(i, b) \cap DOMAIN pipeline_runs,
                     Finished(pipeline_runs[k]), pipeline_runs[k].from = f.id
              PROVE  Finished(b)
            <4>1. Reported([build |-> k[3], result |-> pipeline_runs[k].result], b)
                BY <2>3, <3>3 DEF IInv, RunsInv
            <4>2. k[3] = b.build
                BY <3>3 DEF RunKeys
            <4>3. Finished([build |-> k[3], result |-> pipeline_runs[k].result])
                BY <3>3 DEF Finished
            <4> QED BY <4>1, <4>2, <4>3 DEF Reported
        <3> HIDE DEF f1
        <3> QED BY <1>1, <1>2, <3>2, <3>3 DEF FetchOK
    <2> QED BY <2>2, <2>3 DEF Fetch
<1>8. \A j \in DOMAIN fs : FetchOK(j, fs[j])
    <2> HIDE DEF f1
    <2> QED BY <1>1, <1>7 DEF IInv, CallsInv
<1>9. h.fetches = fs
    OBVIOUS
<1> HIDE DEF h, fs
<1> QED BY <1>5, <1>6, <1>8, <1>9, CallStep

LEMMA FetchStepKeepsIInv ==
    ASSUME IInv, NEW c \in Calls, NEW i \in Rows, FetchStep(c, i) PROVE IInv'
<1>1. i \in DOMAIN calls[c].fetches
    BY DEF FetchStep, AzureAnswers, FetchGivesUp, InFlight
<1>2. UNCHANGED <<remote, azure_pipelines, pipeline_runs, newest>>
    BY DEF FetchStep, AzureAnswers, FetchGivesUp
<1>3. Fetch(c, i).id \in Definitions
    BY <1>1 DEF Fetch, IInv, CallsInv, CallOK, FetchType
<1>4. remote[Fetch(c, i).id] \in Build /\ NoBuild \in Build
    BY <1>3 DEF IInv, RemoteInv, NoBuild, Build
<1>5. Returned(c, i, remote[Fetch(c, i).id]) \/ Returned(c, i, NoBuild)
    BY DEF FetchStep, AzureAnswers, FetchGivesUp
<1> QED BY <1>1, <1>2, <1>4, <1>5, ReturnedKeepsIInv

LEMMA Answered ==
    ASSUME NEW old, NEW x, old = [tool |-> old.tool, fetches |-> old.fetches,
                                  rejected |-> old.rejected, answered |-> old.answered]
    PROVE  [old EXCEPT !.answered = x] = [tool |-> old.tool, fetches |-> old.fetches,
                                          rejected |-> old.rejected, answered |-> x]
OBVIOUS

\* A response leaves fetches behind only in groups that it reports as errors.
LEMMA RespondKeepsIInv ==
    ASSUME IInv, NEW c \in Calls, Respond(c) PROVE IInv'
<1> DEFINE old == calls[c]
<1>1. CallOK(old)
    BY DEF IInv, CallsInv
<1>2. UNCHANGED <<remote, azure_pipelines, pipeline_runs, newest>>
    BY DEF Respond
<1>3. CASE DOMAIN old.fetches = {}
    <2>1. calls' = [calls EXCEPT ![c] = Idle]
        BY <1>3 DEF Respond, IInv, CallsInv
    <2> QED BY <1>2, <2>1, IdleForm, CallStep
<1>4. CASE DOMAIN old.fetches # {}
    <2> DEFINE h == [tool |-> old.tool, fetches |-> old.fetches, rejected |-> old.rejected,
                     answered |-> TRUE]
    <2>1. old = [tool |-> old.tool, fetches |-> old.fetches, rejected |-> old.rejected,
                 answered |-> old.answered]
        BY <1>1 DEF CallOK
    <2>2. [old EXCEPT !.answered = TRUE] = h
        BY <2>1, Answered, Zenon
    <2>3. calls' = [calls EXCEPT ![c] = h]
        BY <1>4, <2>2 DEF Respond, IInv, CallsInv
    <2>4. ASSUME NEW i \in DOMAIN old.fetches
          PROVE  old.tool = "check_all_projects" /\ \E j \in old.rejected : j[1] = i[1]
        <3>1. i[1] \in Groups
            BY <1>1 DEF CallOK, Rows
        <3>2. i \in Waiting(c, i[1])
            BY DEF Waiting
        <3> QED BY <3>1, <3>2 DEF Respond, Settled, GroupRejected
    <2>5. h.tool = old.tool /\ h.fetches = old.fetches /\ h.rejected = old.rejected
          /\ h.answered = TRUE
        OBVIOUS
    <2>6. h = [tool |-> h.tool, fetches |-> h.fetches, rejected |-> h.rejected,
               answered |-> h.answered]
        OBVIOUS
    <2> HIDE DEF h
    <2>7. CallOK(h)
        BY <1>1, <1>4, <2>4, <2>5, <2>6 DEF CallOK
    <2>8. \A i \in DOMAIN h.fetches : FetchOK(i, h.fetches[i])
        BY <2>5 DEF IInv, CallsInv
    <2> QED BY <1>2, <2>3, <2>7, <2>8, CallStep
<1> QED BY <1>3, <1>4

\* What a call keeps when it goes on: a fetch keeps what it asked and was
\* answered, and only waits for less.
Kept(old, h) ==
    \A j \in DOMAIN h.fetches :
        LET f == old.fetches[j]
            f1 == h.fetches[j]
        IN  /\ j \in DOMAIN old.fetches
            /\ f1.id = f.id /\ f1.run = f.run /\ f1.overtaken = f.overtaken
            /\ f1.replaced = f.replaced /\ f1.phase \in {f.phase, "logs"}

LEMMA ContinuedOK ==
    ASSUME CallsInv, NEW c \in Calls, NEW i \in DOMAIN calls[c].fetches
    PROVE  \E h : /\ CallOK(h) /\ Kept(calls[c], h)
                  /\ Continued(c, i) = [calls EXCEPT ![c] = h]
<1> DEFINE old == calls[c]
           f == old.fetches[i]
           f1 == [f EXCEPT !.phase = "logs"]
           fs == [old.fetches EXCEPT ![i] = f1]
           h == [tool |-> old.tool, fetches |-> fs, rejected |-> old.rejected,
                 answered |-> old.answered]
<1>1. CallOK(old) /\ f \in FetchType /\ old.fetches \in [DOMAIN old.fetches -> FetchType]
    BY DEF CallsInv, CallOK
<1>2. CASE calls[c].tool = "get_pipeline_logs"
    <2>1. /\ f1 \in FetchType /\ f1.phase = "logs" /\ f1.run = f.run
          /\ f1.id = f.id /\ f1.overtaken = f.overtaken /\ f1.replaced = f.replaced
        BY <1>1 DEF FetchType
    <2>2. Continued(c, i) = [calls EXCEPT ![c].fetches[i] = f1]
        BY <1>2 DEF Continued
    <2>3. Continued(c, i) = [calls EXCEPT ![c] = [old EXCEPT !.fetches = fs]]
        <3> HIDE DEF f1
        <3> QED BY <2>2
    <2>4. [old EXCEPT !.fetches = fs] = h
        <3>1. old = [tool |-> old.tool, fetches |-> old.fetches, rejected |-> old.rejected,
                     answered |-> old.answered]
            BY <1>1 DEF CallOK
        <3> HIDE DEF fs
        <3> QED BY <3>1
    <2>5. fs \in [DOMAIN old.fetches -> FetchType] /\ DOMAIN fs = DOMAIN old.fetches
        BY <1>1, <2>1
    <2>6. h.tool = old.tool /\ h.fetches = fs /\ h.rejected = old.rejected
          /\ h.answered = old.answered
        OBVIOUS
    <2>7. h = [tool |-> h.tool, fetches |-> h.fetches, rejected |-> h.rejected,
               answered |-> h.answered]
        OBVIOUS
    <2>8. \A j \in DOMAIN old.fetches : fs[j] = IF j = i THEN f1 ELSE old.fetches[j]
        <3> HIDE DEF f1
        <3> QED BY <1>1
    <2> HIDE DEF h, fs, f1
    <2>9. CallOK(h)
        BY <1>1, <2>5, <2>6, <2>7 DEF CallOK
    <2>10. Kept(old, h)
        BY <2>1, <2>5, <2>6, <2>8 DEF Kept
    <2> QED BY <2>3, <2>4, <2>9, <2>10
<1>3. CASE calls[c].tool # "get_pipeline_logs"
    <2>1. Continued(c, i) = Settle(c, i, {})
        BY <1>3 DEF Continued
    <2>2. PICK g : CallOK(g) /\ Rest(calls[c], g) /\ Settle(c, i, {}) = [calls EXCEPT ![c] = g]
        BY SettleOK
    <2>3. Kept(calls[c], g)
        BY <2>2 DEF Rest, Kept
    <2> QED BY <2>1, <2>2, <2>3
<1> QED BY <1>2, <1>3

\* The row that is written, and the rows that stay.
LEMMA Recorded ==
    ASSUME NEW i, NEW b, NEW d, RecordPipelineRun(i, b, d),
           NEW new, new = <<i[1], i[2], b.build>>
    PROVE  /\ DOMAIN pipeline_runs' = DOMAIN pipeline_runs \cup {new}
           /\ pipeline_runs' = [k \in DOMAIN pipeline_runs' |-> pipeline_runs'[k]]
           /\ pipeline_runs'[new] = [status |-> MapStatus(b), result |-> b.result, from |-> d]
           /\ \A k \in DOMAIN pipeline_runs : k # new => pipeline_runs'[k] = pipeline_runs[k]
BY DEF RecordPipelineRun, RunKeys

LEMMA ContinueRecordedKeepsIInv ==
    ASSUME IInv, NEW c \in Calls, NEW i \in Rows, ContinueRecorded(c, i) PROVE IInv'
<1> DEFINE f == calls[c].fetches[i]
           run == f.run
           new == <<i[1], i[2], run.build>>
           base == Continued(c, i)
<1>1. /\ i \in DOMAIN calls[c].fetches /\ f.phase = "returned" /\ run # NoBuild
      /\ UNCHANGED <<remote, azure_pipelines, newest>>
      /\ RecordPipelineRun(i, run, f.id)
    BY DEF ContinueRecorded, Ready, InFlight, Fetch
<1>2. FetchOK(i, f) /\ f \in FetchType
    BY <1>1 DEF IInv, CallsInv, CallOK
<1>3. f.id \in Definitions /\ run \in Build /\ run.build \in Nat
      /\ run.result \in Results \cup {"none"}
    BY <1>2 DEF FetchType, Build
<1>4. /\ DOMAIN pipeline_runs' = DOMAIN pipeline_runs \cup {new}
      /\ pipeline_runs' = [k \in DOMAIN pipeline_runs' |-> pipeline_runs'[k]]
      /\ pipeline_runs'[new] = [status |-> MapStatus(run), result |-> run.result, from |-> f.id]
      /\ \A k \in DOMAIN pipeline_runs : k # new => pipeline_runs'[k] = pipeline_runs[k]
    <2>1. new = <<i[1], i[2], run.build>>
        OBVIOUS
    <2> HIDE DEF new, run
    <2> QED BY <1>1, <2>1, Recorded
<1>5. RemoteInv' /\ RowsInv' /\ NewestInv'
    BY <1>1 DEF IInv, RemoteInv, RowsInv, NewestInv, RegistrationWhole
<1>6. RunsInv'
    <2>1. new \in Groups \X PipelineNames \X Nat
        BY <1>3 DEF Rows
    <2>2. MapStatus(run) \in RunStatuses
        BY DEF MapStatus, RunStatuses
    <2>3. pipeline_runs'[new] \in
              [status: RunStatuses, result: Results \cup {"none"}, from: Definitions]
        BY <1>3, <1>4, <2>2
    <2>4. Reported([build |-> new[3], result |-> pipeline_runs'[new].result],
                   remote[pipeline_runs'[new].from])
        <3>1. Reported(run, remote[f.id])
            BY <1>2 DEF FetchOK
        <3>2. new[3] = run.build /\ pipeline_runs'[new].result = run.result
              /\ pipeline_runs'[new].from = f.id
            BY <1>4
        <3> HIDE DEF new, run
        <3> QED BY <3>1, <3>2 DEF Reported, Finished
    <2> HIDE DEF new, run
    <2>5. pipeline_runs' \in
              [DOMAIN pipeline_runs' ->
                  [status: RunStatuses, result: Results \cup {"none"}, from: Definitions]]
        BY <1>4, <2>3 DEF IInv, RunsInv
    <2>6. ASSUME NEW k \in DOMAIN pipeline_runs', Finished(pipeline_runs'[k])
          PROVE  Reported([build |-> k[3], result |-> pipeline_runs'[k].result],
                          remote'[pipeline_runs'[k].from])
        <3>1. CASE k = new
            BY <1>1, <2>4, <3>1
        <3>2. CASE k # new
            BY <1>1, <1>4, <2>6, <3>2 DEF IInv, RunsInv
        <3> QED BY <3>1, <3>2
    <2>7. DOMAIN pipeline_runs' \subseteq Groups \X PipelineNames \X Nat
        BY <1>4, <2>1 DEF IInv, RunsInv
    <2> QED BY <2>5, <2>6, <2>7 DEF RunsInv
<1>7. PICK h : CallOK(h) /\ Kept(calls[c], h) /\ base = [calls EXCEPT ![c] = h]
    BY <1>1, ContinuedOK DEF IInv
<1>8. ASSUME NEW x \in Calls PROVE CallOK(base[x]) /\ Kept(calls[x], base[x])
    <2>1. CASE x = c
        BY <1>7, <2>1 DEF IInv, CallsInv
    <2>2. CASE x # c
        BY <1>7, <2>2 DEF IInv, CallsInv, Kept
    <2> QED BY <2>1, <2>2
<1>9. calls' = IF Finished(run) THEN OvertakenIn(base, {i}) ELSE base
    BY DEF ContinueRecorded, Fetch, OvertakenIn
<1> HIDE DEF base
<1>10. ASSUME NEW x \in Calls, NEW j \in DOMAIN base[x].fetches,
              NEW g, g.id = base[x].fetches[j].id, g.run = base[x].fetches[j].run,
              g.phase = base[x].fetches[j].phase, g.replaced = base[x].fetches[j].replaced,
              g.overtaken \/ (g.overtaken = base[x].fetches[j].overtaken
                                /\ (j = i => ~Finished(run)))
       PROVE  FetchOK(j, g)'
    <2> DEFINE o == calls[x].fetches[j]
    <2>1. /\ j \in DOMAIN calls[x].fetches /\ g.id = o.id /\ g.run = o.run
          /\ g.phase \in {o.phase, "logs"} /\ g.replaced = o.replaced
          /\ base[x].fetches[j].overtaken = o.overtaken
        BY <1>8, <1>10 DEF Kept
    <2>2. FetchOK(j, o) /\ j \in Rows
        BY <2>1 DEF IInv, CallsInv, CallOK
    <2>3. /\ ~g.replaced => g.id = azure_pipelines'[j].id
          /\ Reported(g.run, remote'[g.id])
        BY <1>1, <2>1, <2>2 DEF FetchOK
    <2>4. ASSUME g.phase = "returned", g.run # NoBuild, ~Finished(g.run),
                 NEW k \in RunKeys(j, g.run) \cap DOMAIN pipeline_runs',
                 Finished(pipeline_runs'[k]), pipeline_runs'[k].from = g.id
          PROVE  g.overtaken
        <3>1. CASE k = new
            <4>1. k = <<j[1], j[2], g.run.build>>
                BY <2>4 DEF RunKeys
            <4>2. i[1] = j[1] /\ i[2] = j[2]
                BY <3>1, <4>1
            <4>3. i = j
                BY <2>2, <4>2 DEF Rows
            <4>4. Finished(run)
                BY <1>4, <2>4, <3>1 DEF Finished
            <4> QED BY <1>10, <4>3, <4>4
        <3>2. CASE k # new
            <4>1. k \in DOMAIN pipeline_runs /\ pipeline_runs'[k] = pipeline_runs[k]
                BY <1>4, <2>4, <3>2
            <4>2. o.overtaken
                BY <2>1, <2>2, <2>4, <4>1 DEF FetchOK
            <4> QED BY <1>10, <2>1, <4>2
        <3> QED BY <3>1, <3>2
    <2> QED BY <2>3, <2>4 DEF FetchOK, RunKeys
<1>11. CallsInv'
    <2>1. CASE ~Finished(run)
        <3>1. calls' = base
            BY <1>9, <2>1
        <3>2. ASSUME NEW x \in Calls, NEW j \in DOMAIN calls'[x].fetches
              PROVE  FetchOK(j, calls[x].fetches[j])'
            <4> DEFINE b == base[x].fetches[j]
            <4>1. j \in DOMAIN base[x].fetches /\ calls'[x].fetches[j] = b
                BY <3>1
            <4> QED BY <1>10, <2>1, <4>1
        <3>3. DOMAIN base = Calls
            BY <1>7 DEF IInv, CallsInv
        <3> QED BY <1>1, <1>8, <3>1, <3>2, <3>3 DEF CallsInv, CallOK
    <2>2. CASE Finished(run)
        <3> DEFINE is == {i}
        <3>1. calls' = OvertakenIn(base, is)
            BY <1>9, <2>2
        <3> HIDE DEF is
        <3>2. DOMAIN calls' = Calls
            BY <3>1 DEF OvertakenIn, Marked
        <3>3. ASSUME NEW x \in Calls
              PROVE  /\ CallOK(calls'[x]) /\ SameCall(calls'[x], base[x])
                     /\ \A j \in DOMAIN base[x].fetches :
                           calls'[x].fetches[j] = IF j \in is THEN Overtaken(base[x].fetches[j])
                                                             ELSE base[x].fetches[j]
            BY <1>8, <3>1, MarkedOvertaken
        <3>4. ASSUME NEW x \in Calls, NEW j \in DOMAIN calls'[x].fetches
              PROVE  FetchOK(j, calls[x].fetches[j])'
            <4> DEFINE b == base[x].fetches[j]
            <4>1. j \in DOMAIN base[x].fetches
                BY <3>3, <3>4 DEF SameCall
            <4>2. b \in FetchType
                BY <1>8, <4>1 DEF CallOK
            <4>3. Overtaken(b).overtaken /\ Overtaken(b).id = b.id /\ Overtaken(b).run = b.run
                  /\ Overtaken(b).phase = b.phase /\ Overtaken(b).replaced = b.replaced
                BY <4>2 DEF Overtaken, FetchType
            <4>4. CASE j = i
                <5>1. calls'[x].fetches[j] = Overtaken(b)
                    BY <3>3, <4>1, <4>4 DEF is
                <5> QED BY <1>10, <4>1, <4>3, <5>1
            <4>5. CASE j # i
                <5>1. calls'[x].fetches[j] = b
                    BY <3>3, <4>1, <4>5 DEF is
                <5> QED BY <1>10, <4>1, <4>5, <5>1
            <4> QED BY <4>4, <4>5
        <3> QED BY <1>1, <3>2, <3>3, <3>4 DEF CallsInv, CallOK
    <2> QED BY <2>1, <2>2
<1> QED BY <1>5, <1>6, <1>11 DEF IInv

LEMMA HandlerStepKeepsIInv ==
    ASSUME IInv, NEW c \in Calls, NEW i \in Rows, HandlerStep(c, i) PROVE IInv'
<1>1. CASE ContinueWithout(c, i)
    <2>1. /\ i \in DOMAIN calls[c].fetches /\ calls' = Settle(c, i, {})
          /\ UNCHANGED <<remote, azure_pipelines, pipeline_runs, newest>>
        BY <1>1 DEF ContinueWithout, Ready, InFlight
    <2> QED BY <2>1, SettleKeepsIInv
<1>2. CASE ContinueRecorded(c, i)
    BY <1>2, ContinueRecordedKeepsIInv
<1>3. CASE ContinueRefused(c, i)
    <2>1. /\ i \in DOMAIN calls[c].fetches /\ calls' = Settle(c, i, {i})
          /\ UNCHANGED <<remote, azure_pipelines, pipeline_runs, newest>>
        BY <1>3 DEF ContinueRefused, Ready, InFlight
    <2> QED BY <2>1, SettleKeepsIInv
<1>4. CASE LogsEnd(c, i)
    <2>1. /\ i \in DOMAIN calls[c].fetches /\ calls' = Settle(c, i, {})
          /\ UNCHANGED <<remote, azure_pipelines, pipeline_runs, newest>>
        BY <1>4 DEF LogsEnd, InFlight
    <2> QED BY <2>1, SettleKeepsIInv
<1> QED BY <1>1, <1>2, <1>3, <1>4 DEF HandlerStep

LEMMA StutterKeepsIInv == ASSUME IInv, UNCHANGED vars PROVE IInv'
BY DEF vars, IInv, RemoteInv, RowsInv, NewestInv, RegistrationWhole, RunsInv, CallsInv,
       CallOK, FetchOK

LEMMA NextIInv == IInv /\ [Next]_vars => IInv'
<1> SUFFICES ASSUME IInv, [Next]_vars PROVE IInv'
    OBVIOUS
<1>1. ASSUME NEW d \in Definitions, BuildStarts(d) \/ BuildCompletes(d) PROVE IInv'
    BY <1>1, BuildsKeepIInv
<1>2. ASSUME NEW reg \in Registrations, Register(reg) \/ RegisterFails(reg) PROVE IInv'
    <2>1. CASE Register(reg)
        BY <2>1, RegisterKeepsIInv
    <2>2. CASE RegisterFails(reg)
        BY <2>2, StutterKeepsIInv DEF RegisterFails
    <2> QED BY <1>2, <2>1, <2>2
<1>3. CASE Restart
    BY <1>3, RestartKeepsIInv
<1>4. ASSUME NEW c \in Calls, CheckPipelineStatus(c) \/ CheckAllProjects(c) PROVE IInv'
    <2>1. "check_pipeline_status" \in Tools /\ "check_all_projects" \in Tools
        BY DEF Tools
    <2>2. CASE CheckPipelineStatus(c)
        <3>1. PICK gs \in {{g} : g \in Groups} \cup {Groups} :
                  StartFetches(c, "check_pipeline_status", RowsOf(gs))
            BY <2>2 DEF CheckPipelineStatus
        <3> QED BY <2>1, <3>1, StartFetchesKeepsIInv
    <2>3. CASE CheckAllProjects(c)
        <3>1. StartFetches(c, "check_all_projects", RowsOf(Groups))
            BY <2>3 DEF CheckAllProjects
        <3> QED BY <2>1, <3>1, StartFetchesKeepsIInv
    <2> QED BY <1>4, <2>2, <2>3
<1>5. ASSUME NEW c \in Calls, Respond(c) PROVE IInv'
    BY <1>5, RespondKeepsIInv
<1>6. ASSUME NEW c \in Calls, NEW i \in Rows,
             GetPipelineLogs(c, i) \/ FetchStep(c, i) \/ HandlerStep(c, i)
      PROVE  IInv'
    BY <1>6, LogsKeepIInv, FetchStepKeepsIInv, HandlerStepKeepsIInv
<1>7. CASE UNCHANGED vars
    BY <1>7, StutterKeepsIInv
<1> QED BY <1>1, <1>2, <1>3, <1>4, <1>5, <1>6, <1>7 DEF Next

-------------------------------------------------------------------------------
(* Theorems *)

\* What is recorded and what is in flight was reported by Azure, and the rows
\* of a group are those of its newest registration.
THEOREM Invariance == Spec => []IInv
<1>1. Init => IInv
    BY InitIInv
<1>2. IInv /\ [Next]_vars => IInv'
    BY NextIInv
<1> QED BY <1>1, <1>2, PTL DEF Spec

\* A group of pipelines is never half registered (registerPipelines).
THEOREM RegistrationKept == Spec => []RegistrationWhole
<1>1. IInv => RegistrationWhole
    BY DEF IInv, NewestInv
<1> QED BY <1>1, Invariance, PTL

\* Only check_all_projects responds before its fetches end, and only of groups
\* it reported as errors.
THEOREM LateSound == Spec => []LateOnlyAfterFailure
<1>1. IInv => LateOnlyAfterFailure
    BY DEF IInv, CallsInv, CallOK, LateOnlyAfterFailure, GroupRejected
<1> QED BY <1>1, Invariance, PTL

\* The tables and the calls have their types.
THEOREM TypeCorrect == Spec => []PipelinesTypeOK
<1>1. IInv => PipelinesTypeOK
    <2> SUFFICES ASSUME IInv PROVE PipelinesTypeOK
        OBVIOUS
    <2>1. ASSUME NEW c \in Calls
          PROVE  /\ calls[c].tool \in Tools \cup {"none"}
                 /\ calls[c].fetches \in [DOMAIN calls[c].fetches -> FetchType]
                 /\ DOMAIN calls[c].fetches \subseteq Rows
                 /\ calls[c].rejected \subseteq Rows \ DOMAIN calls[c].fetches
                 /\ calls[c].answered => DOMAIN calls[c].fetches # {}
        BY DEF IInv, CallsInv, CallOK
    <2> QED BY <2>1 DEF IInv, RemoteInv, RowsInv, RunsInv, PipelinesTypeOK
<1> QED BY <1>1, Invariance, PTL

\* What the newest registration of its group says of a row is in the row.
LEMMA CurrentId ==
    ASSUME IInv, NEW i \in DOMAIN azure_pipelines PROVE Current(i) = azure_pipelines[i].id
<1>1. CASE i[1] \in DOMAIN newest /\ i[2] \in newest[i[1]].names
    <2> DEFINE reg == newest[i[1]]
    <2>1. i = <<i[1], i[2]>>
        BY DEF IInv, RowsInv, Rows
    <2>2. azure_pipelines[i] \in {Row(reg, i[2]), WithoutKey(Row(reg, i[2]))}
        BY <1>1, <2>1 DEF IInv, NewestInv, RegistrationWhole
    <2>3. Row(reg, i[2]).id = IdOf(reg.source, i[2])
          /\ WithoutKey(Row(reg, i[2])).id = IdOf(reg.source, i[2])
        BY DEF Row, WithoutKey
    <2> QED BY <1>1, <2>2, <2>3 DEF Current
<1>2. CASE ~(i[1] \in DOMAIN newest /\ i[2] \in newest[i[1]].names)
    BY <1>2 DEF Current
<1> QED BY <1>1, <1>2

StaleStep ==
    \A k \in DOMAIN pipeline_runs' :
        LET i == <<k[1], k[2]>>
            was == k \in DOMAIN pipeline_runs /\ Finished(pipeline_runs[k])
            changed == k \notin DOMAIN pipeline_runs \/ pipeline_runs[k] # pipeline_runs'[k]
        IN  changed =>
              \E c \in Calls :
                  /\ ContinueRecorded(c, i)
                  /\ was /\ ~ Finished(pipeline_runs'[k]) =>
                        \/ Fetch(c, i).overtaken
                        \/ pipeline_runs'[k].from # pipeline_runs[k].from
                  /\ pipeline_runs'[k].from # Current(i) => Fetch(c, i).replaced

\* Only a recorded answer changes pipeline_runs.
LEMMA RunsChange ==
    ASSUME [Next]_vars
    PROVE  \/ UNCHANGED pipeline_runs
           \/ \E c \in Calls, i \in Rows : ContinueRecorded(c, i)
BY DEF Next, vars, BuildStarts, BuildCompletes, Register, RegisterFails, Restart,
       CheckPipelineStatus, CheckAllProjects, StartFetches, Respond, GetPipelineLogs,
       FetchStep, AzureAnswers, FetchGivesUp, HandlerStep, ContinueWithout,
       ContinueRefused, LogsEnd

LEMMA RecordedStale ==
    ASSUME IInv, NEW c \in Calls, NEW i \in Rows, ContinueRecorded(c, i) PROVE StaleStep
<1> DEFINE f == calls[c].fetches[i]
           run == f.run
           new == <<i[1], i[2], run.build>>
<1>1. /\ i \in DOMAIN calls[c].fetches /\ f.phase = "returned" /\ run # NoBuild
      /\ RecordPipelineRun(i, run, f.id)
    BY DEF ContinueRecorded, Ready, InFlight, Fetch
<1>2. FetchOK(i, f) /\ i \in DOMAIN azure_pipelines
    BY <1>1 DEF IInv, CallsInv, CallOK
<1>3. new = <<i[1], i[2], run.build>> /\ i = <<i[1], i[2]>>
    BY DEF Rows
<1>4. <<new[1], new[2]>> = i
    BY <1>3
<1>5. f = Fetch(c, i) /\ RunKeys(i, run) = {new}
    BY DEF Fetch, RunKeys
<1> HIDE DEF new, run, f
<1>6. /\ DOMAIN pipeline_runs' = DOMAIN pipeline_runs \cup {new}
      /\ pipeline_runs'[new] = [status |-> MapStatus(run), result |-> run.result, from |-> f.id]
      /\ \A k \in DOMAIN pipeline_runs : k # new => pipeline_runs'[k] = pipeline_runs[k]
    BY <1>1, <1>3, Recorded
<1>7. pipeline_runs'[new].result = run.result /\ pipeline_runs'[new].from = f.id
    BY <1>6
<1>8. ASSUME NEW k \in DOMAIN pipeline_runs',
             k \notin DOMAIN pipeline_runs \/ pipeline_runs[k] # pipeline_runs'[k]
      PROVE  k = new
    BY <1>6, <1>8
<1>9. ASSUME new \in DOMAIN pipeline_runs, Finished(pipeline_runs[new]),
             ~Finished(pipeline_runs'[new])
      PROVE  f.overtaken \/ pipeline_runs'[new].from # pipeline_runs[new].from
    <2>1. ~Finished(run)
        BY <1>7, <1>9 DEF Finished
    <2> QED BY <1>1, <1>2, <1>5, <1>7, <1>9, <2>1 DEF FetchOK, run
<1>10. pipeline_runs'[new].from # Current(i) => f.replaced
    BY <1>2, <1>7, CurrentId DEF FetchOK
<1> QED BY <1>4, <1>5, <1>8, <1>9, <1>10 DEF StaleStep

\* Only overlapping calls put something stale into pipeline_runs.
THEOREM StaleBounded == Spec => StaleOnlyIfInFlight
<1>1. IInv /\ [Next]_vars => [StaleStep]_vars
    <2> SUFFICES ASSUME IInv, [Next]_vars PROVE StaleStep
        OBVIOUS
    <2>1. CASE UNCHANGED pipeline_runs
        BY <2>1 DEF StaleStep
    <2>2. CASE \E c \in Calls, i \in Rows : ContinueRecorded(c, i)
        BY <2>2, RecordedStale
    <2> QED BY <2>1, <2>2, RunsChange
<1>2. Spec => [][StaleStep]_vars
    BY <1>1, Invariance, PTL DEF Spec
<1>3. StaleOnlyIfInFlight <=> [][StaleStep]_vars
    BY DEF StaleOnlyIfInFlight, StaleStep
<1> QED BY <1>2, <1>3
===============================================================================
