----------------------- MODULE IndividualRelay_proofs -----------------------
(***************************************************************************)
(* What IndividualRelay promises for any callers, cooldown, cap, clock and *)
(* faults: no caller is sent to twice within a cooldown, none is           *)
(* forgotten, and a form post reaches its own caller.  Inv is the          *)
(* inductive invariant, a part per idea and a lemma per part.              *)
(***************************************************************************)
EXTENDS IndividualRelay, SequenceTheorems, TLAPS

--------------------------------------------------------------------------------
\* Went(p, kinds): one of these kinds of upset has hit p.
Went(p, kinds) == hit[p] \cap kinds # {}

Mine(p, pcs) == job # None /\ job.phone = p /\ job.pc \in pcs

\* The last accepted send of p is in the ledger, or its record is next, or an
\* upset of the API path lost it; the claim of the form path comes first.
Recorded(p) ==
    \/ fired[p] = Never
    \/ \E t \in 0..MaxTime : <<p, t>> \in ledger /\ t >= fired[p]
    \/ method = "api" /\ Went(p, {"lost", "record", "crash"})
    \/ Mine(p, {"record"}) /\ fired[p] = job.now

\* Past its check, a job's last accepted send is older than the cooldown.
Checked ==
    job # None /\ job.pc \in {"broadcast", "edit", "claim", "fire"} =>
        \/ fired[job.phone] < job.now - Cooldown
        \/ method = "api" /\ Went(job.phone, {"lost", "record", "crash"})

Paths ==
    job # None => /\ job.now <= clock
                  /\ job.pc \in {"broadcast", "record"} => method = "api"
                  /\ job.pc \in {"edit", "claim", "fire", "settle"} => method = "form"
                  /\ job.pc = "record" => linked[job.phone] = clock
                  /\ job.pc = "fire" => \E t \in 0..MaxTime : <<job.phone, t>> \in ledger /\ t >= job.now

Repeats == \A p \in twice : method = "api" /\ Went(p, {"lost", "record", "crash"})

\* The reasons not to have a link by time t, or to have it.
Served(p, t) ==
    p \in optedOut \/ p \in zaps \/ linked[p] >= t
    \/ Went(p, {"read", "crash", "post", "absent", "lag"})

\* The group of a form post under way holds its caller and nobody else.
Grouped ==
    job # None /\ job.pc \in {"claim", "fire", "settle"} =>
        /\ member["callers"] \subseteq {job.phone}
        /\ job.phone \in member["callers"] \/ Went(job.phone, {"absent"})

\* A response the Zap has not handled belongs to the job, or something went wrong.
Pending == \A p \in zaps : Mine(p, {"settle"}) \/ Went(p, {"lag", "post", "crash"})

\* A ledger row is a link sent, or one that the job still has to send.
LedgerServed ==
    \A e \in ledger : Served(e[1], e[2]) \/ Mine(e[1], {"fire", "relay"})

Settling == job # None /\ job.pc = "settle" => Served(job.phone, job.now)

EndedServed == \A e \in ended : Served(e[1], e[2] - Cooldown)

Strays == (\E p \in Phones : Went(p, {"lag", "post", "crash"})) \/ strays = {}

\* Nothing is dated after the clock.
Timely ==
    /\ \A p \in Phones : linked[p] <= clock
    /\ \A e \in ledger \cup ended : e[2] <= clock

Inv ==
    /\ TypeOK /\ Timely /\ Paths
    /\ (\A p \in Phones : Recorded(p)) /\ Checked /\ Repeats
    /\ Grouped /\ Pending /\ Strays
    /\ LedgerServed /\ Settling /\ EndedServed

\* What no step takes back: a time, a stop, a row, a link and an upset.
Grown ==
    /\ method' = method /\ clock <= clock'
    /\ optedOut \subseteq optedOut' /\ ledger \subseteq ledger'
    /\ \A p \in Phones : hit[p] \subseteq hit'[p] /\ linked[p] <= linked'[p]

--------------------------------------------------------------------------------
LEMMA Bounds == Cooldown \in Nat /\ MaxTime \in Nat /\ MaxUpsets \in Nat /\ MaxZillow \in Nat
  BY RelayBounds

\* A fault is noted at its caller, and what was noted stays.
LEMMA UpsetFields ==
    ASSUME TypeOK, NEW p \in Phones, NEW kind \in Kinds, Upset(p, kind)
    PROVE  /\ hit' \in [Phones -> SUBSET Kinds] /\ upsets' \in 0..MaxUpsets
           /\ kind \in hit'[p] /\ \A q \in Phones : hit[q] \subseteq hit'[q]
  BY Bounds DEF TypeOK, Upset

\* Whom a link reaches has it now; nobody else's changes.
LEMMA LinkFields ==
    ASSUME TypeOK, NEW ps, Link(ps)
    PROVE  /\ linked' \in [Phones -> Never..MaxTime]
           /\ \A p \in Phones : linked'[p] = IF p \in ps THEN clock ELSE linked[p]
  BY Bounds DEF TypeOK, Link, Never

LEMMA FireFields ==
    ASSUME TypeOK, job \in JobRow, NEW p \in Phones, Fire(p)
    PROVE  /\ fired' \in [Phones -> Never..MaxTime] /\ twice' \in SUBSET Phones
           /\ fired'[p] = job.now /\ \A q \in Phones : q # p => fired'[q] = fired[q]
           /\ \A q \in twice' : q \in twice \/ (q = p /\ fired[p] >= job.now - Cooldown)
  BY Bounds DEF TypeOK, Fire, JobRow, Never

LEMMA GotoFields ==
    ASSUME job \in JobRow, NEW s \in {"broadcast", "record", "edit", "claim", "fire", "settle", "relay"},
           Goto(s)
    PROVE  /\ job' \in JobRow /\ job' # None /\ job'.pc = s
           /\ job'.phone = job.phone /\ job'.now = job.now
  BY NoneIsNoJob DEF Goto, JobRow

LEMMA GroupFields ==
    ASSUME TypeOK, NEW g \in {"callers", "zillow"}, NEW ps \in SUBSET Phones
    PROVE  /\ SetGroup(g, ps) \in [{"callers", "zillow"} -> SUBSET Phones]
           /\ SetGroup(g, ps)["callers"] \cap SetGroup(g, ps)["zillow"] = {}
           /\ SetGroup(g, ps)[g] \subseteq ps
           /\ \A h \in {"callers", "zillow"} : h # g => SetGroup(g, ps)[h] = member[h]
  <1>1. DOMAIN member = {"callers", "zillow"} /\ member \in [{"callers", "zillow"} -> SUBSET Phones]
    BY DEF TypeOK
  <1>2. CASE g = "callers"
    BY <1>1, <1>2 DEF SetGroup
  <1>3. CASE g = "zillow"
    BY <1>1, <1>3 DEF SetGroup
  <1> QED
    BY <1>2, <1>3

LEMMA FinishFields ==
    ASSUME TypeOK, job \in JobRow, Finish
    PROVE  /\ job' = None /\ ended' = ended \cup {<<job.phone, job.now>>}
           /\ ended' \subseteq Phones \X (0..MaxTime)
  BY DEF TypeOK, Finish, JobRow

\* The job under way, when one is.
LEMMA JobTyped ==
    ASSUME TypeOK
    PROVE  /\ job # None => job \in JobRow
           /\ \A s : At(s) => job \in JobRow /\ job.pc = s
  BY DEF TypeOK, At

LEMMA TypesKept == TypeOK /\ [Next]_vars => TypeOK'
  <1> SUFFICES ASSUME TypeOK, [Next]_vars PROVE TypeOK'
    OBVIOUS
  <1> USE Bounds DEF lane, tea, env, past
  <1>1. CASE Tick
    BY <1>1 DEF Tick, TypeOK
  <1>2. ASSUME NEW p \in Phones, Stop(p) PROVE TypeOK'
    BY <1>2 DEF Stop, TypeOK
  <1>3. ASSUME NEW p \in Phones, Request(p) PROVE TypeOK'
    <2>1. queue' \in Seq(Waiting)
      <3>1. queue \in Seq(Waiting) /\ [phone |-> p, runs |-> 1] \in Waiting
        BY DEF TypeOK, Waiting
      <3> QED
        BY <1>3, <3>1, AppendProperties DEF Request
    <2>2. ids' \subseteq Phones \X (0..MaxTime)
      BY <1>3 DEF Request, TypeOK
    <2> QED
      BY <1>3, <2>1, <2>2 DEF Request, TypeOK
  <1>4. CASE Take
    <2>1. queue \in Seq(Waiting) /\ queue # <<>>
      BY <1>4 DEF Take, TypeOK
    <2>2. Head(queue) \in Waiting /\ Tail(queue) \in Seq(Waiting)
      BY <2>1, HeadTailProperties
    <2>3. job' \in JobRow
      BY <1>4, <2>2 DEF Take, TypeOK, Waiting, JobRow
    <2>4. queue' \in Seq(Waiting)
      BY <1>4, <2>2 DEF Take
    <2> QED
      BY <1>4, <2>3, <2>4 DEF Take, TypeOK
  <1>5. CASE Check
    <2>1. job \in JobRow
      BY <1>5, JobTyped DEF Check
    <2>2. job' \in JobRow \cup {None} /\ ended' \subseteq Phones \X (0..MaxTime)
      <3>1. CASE Finish
        BY <2>1, <3>1, FinishFields
      <3>2. CASE Goto(IF method = "api" THEN "broadcast" ELSE "edit") /\ UNCHANGED ended
        BY <2>1, <3>2, GotoFields DEF TypeOK
      <3> QED
        BY <1>5, <3>1, <3>2 DEF Check
    <2>3. hit' \in [Phones -> SUBSET Kinds] /\ upsets' \in 0..MaxUpsets
      <3>1. CASE Upset(job.phone, "read")
        BY <2>1, <3>1, UpsetFields DEF JobRow, Kinds
      <3>2. CASE UNCHANGED <<hit, upsets>>
        BY <3>2 DEF TypeOK
      <3> QED
        BY <1>5, <3>1, <3>2 DEF Check
    <2> QED
      BY <1>5, <2>2, <2>3 DEF Check, TypeOK
  <1>6. CASE Broadcast
    <2>1. job \in JobRow /\ job.phone \in Phones
      BY <1>6, JobTyped DEF Broadcast, JobRow
    <2>2. job' \in JobRow
      BY <1>6, <2>1, GotoFields DEF Broadcast
    <2>3. linked' \in [Phones -> Never..MaxTime]
      <3>1. CASE Link({job.phone})
        BY <3>1, LinkFields
      <3> QED
        BY <1>6, <3>1 DEF Broadcast, TypeOK
    <2>4. fired' \in [Phones -> Never..MaxTime] /\ twice' \in SUBSET Phones
      <3>1. CASE Fire(job.phone)
        BY <2>1, <3>1, FireFields
      <3> QED
        BY <1>6, <3>1 DEF Broadcast, TypeOK
    <2>5. hit' \in [Phones -> SUBSET Kinds] /\ upsets' \in 0..MaxUpsets
      <3>1. ASSUME NEW k \in {"refused", "lost"}, Upset(job.phone, k)
            PROVE  hit' \in [Phones -> SUBSET Kinds] /\ upsets' \in 0..MaxUpsets
        BY <2>1, <3>1, UpsetFields DEF Kinds
      <3>2. CASE UNCHANGED <<hit, upsets>>
        BY <3>2 DEF TypeOK
      <3> QED
        BY <1>6, <3>1, <3>2 DEF Broadcast
    <2> QED
      BY <1>6, <2>2, <2>3, <2>4, <2>5 DEF Broadcast, TypeOK
  <1>7. CASE Record
    <2>1. job \in JobRow /\ job.phone \in Phones
      BY <1>7, JobTyped DEF Record, JobRow
    <2>2. job' = None /\ ended' \subseteq Phones \X (0..MaxTime)
      BY <1>7, <2>1, FinishFields DEF Record
    <2>3. hit' \in [Phones -> SUBSET Kinds] /\ upsets' \in 0..MaxUpsets
      <3>1. CASE Upset(job.phone, "record")
        BY <2>1, <3>1, UpsetFields DEF Kinds
      <3> QED
        BY <1>7, <3>1 DEF Record, TypeOK
    <2>4. ledger' \subseteq Phones \X (0..MaxTime)
      BY <1>7, <2>1 DEF Record, TypeOK
    <2> QED
      BY <1>7, <2>2, <2>3, <2>4 DEF Record, TypeOK
  <1>8. CASE Edit
    <2>1. job \in JobRow /\ job.phone \in Phones
      BY <1>8, JobTyped DEF Edit, JobRow
    <2>2. job' \in JobRow
      BY <1>8, <2>1, GotoFields DEF Edit
    <2>3. /\ member' \in [{"callers", "zillow"} -> SUBSET Phones]
          /\ member'["callers"] \cap member'["zillow"] = {}
      <3>1. {job.phone} \in SUBSET Phones /\ {} \in SUBSET Phones
        BY <2>1
      <3>2. \/ member' = member
            \/ \E ps \in SUBSET Phones : member' = SetGroup("callers", ps)
        BY <1>8, <3>1 DEF Edit
      <3>3. CASE member' = member
        BY <3>3 DEF TypeOK
      <3>4. ASSUME NEW ps \in SUBSET Phones, member' = SetGroup("callers", ps)
            PROVE  /\ member' \in [{"callers", "zillow"} -> SUBSET Phones]
                   /\ member'["callers"] \cap member'["zillow"] = {}
        BY <3>4, GroupFields
      <3> QED
        BY <3>2, <3>3, <3>4
    <2>4. hit' \in [Phones -> SUBSET Kinds] /\ upsets' \in 0..MaxUpsets
      <3>1. CASE Upset(job.phone, "refused")
        BY <2>1, <3>1, UpsetFields DEF Kinds
      <3>2. CASE hit' = (IF job.phone \in member'["callers"] THEN hit
                         ELSE [hit EXCEPT ![job.phone] = @ \cup {"absent"}]) /\ UNCHANGED upsets
        BY <2>1, <3>2 DEF TypeOK, Kinds
      <3> QED
        BY <1>8, <3>1, <3>2 DEF Edit
    <2> QED
      BY <1>8, <2>2, <2>3, <2>4 DEF Edit, TypeOK
  <1>9. CASE Claim
    <2>1. job \in JobRow /\ job.phone \in Phones
      BY <1>9, JobTyped DEF Claim, JobRow
    <2>2. job' \in JobRow
      BY <1>9, <2>1, GotoFields DEF Claim
    <2>3. ledger' \subseteq Phones \X (0..MaxTime)
      BY <1>9, <2>1 DEF Claim, TypeOK
    <2> QED
      BY <1>9, <2>2, <2>3 DEF Claim, TypeOK
  <1>10. CASE PostForm
    <2>1. job \in JobRow /\ job.phone \in Phones
      BY <1>10, JobTyped DEF PostForm, JobRow
    <2>2. job' \in JobRow \cup {None} /\ ended' \subseteq Phones \X (0..MaxTime)
      <3>1. CASE Finish
        BY <2>1, <3>1, FinishFields
      <3>2. CASE UNCHANGED ended /\ \E s \in {"settle", "relay"} : Goto(s)
        BY <2>1, <3>2, GotoFields DEF TypeOK
      <3> QED
        BY <1>10, <3>1, <3>2 DEF PostForm
    <2>3. hit' \in [Phones -> SUBSET Kinds] /\ upsets' \in 0..MaxUpsets
      <3>1. ASSUME NEW k \in {"refused", "post"}, Upset(job.phone, k)
            PROVE  hit' \in [Phones -> SUBSET Kinds] /\ upsets' \in 0..MaxUpsets
        BY <2>1, <3>1, UpsetFields DEF Kinds
      <3>2. CASE UNCHANGED <<hit, upsets>>
        BY <3>2 DEF TypeOK
      <3> QED
        BY <1>10, <3>1, <3>2 DEF PostForm
    <2>4. zaps' \subseteq Phones /\ fired' \in [Phones -> Never..MaxTime] /\ twice' \in SUBSET Phones
      <3>1. CASE Stored
        BY <2>1, <3>1, FireFields DEF Stored, TypeOK
      <3>2. CASE UNCHANGED <<zaps, fired, twice>>
        BY <3>2 DEF TypeOK
      <3> QED
        BY <1>10, <3>1, <3>2 DEF PostForm
    <2> QED
      BY <1>10, <2>2, <2>3, <2>4 DEF PostForm, TypeOK
  <1>11. ASSUME NEW p \in Phones, Zap(p) PROVE TypeOK'
    <2>1. linked' \in [Phones -> Never..MaxTime]
      BY <1>11, LinkFields DEF Zap
    <2> QED
      BY <1>11, <2>1 DEF Zap, TypeOK
  <1>12. CASE Settle
    <2>1. job \in JobRow /\ job.phone \in Phones
      BY <1>12, JobTyped DEF Settle, JobRow
    <2>2. job' = None /\ ended' \subseteq Phones \X (0..MaxTime)
      BY <1>12, <2>1, FinishFields DEF Settle
    <2>3. hit' \in [Phones -> SUBSET Kinds] /\ upsets' \in 0..MaxUpsets
      <3>1. CASE Upset(job.phone, "lag")
        BY <2>1, <3>1, UpsetFields DEF Kinds
      <3> QED
        BY <1>12, <3>1 DEF Settle, TypeOK
    <2> QED
      BY <1>12, <2>2, <2>3 DEF Settle, TypeOK
  <1>13. CASE Relay
    <2>1. job \in JobRow
      BY <1>13, JobTyped DEF Relay
    <2>2. job' = None /\ ended' \subseteq Phones \X (0..MaxTime)
      BY <1>13, <2>1, FinishFields DEF Relay
    <2>3. linked' \in [Phones -> Never..MaxTime]
      BY <1>13, LinkFields DEF Relay
    <2> QED
      BY <1>13, <2>2, <2>3 DEF Relay, TypeOK
  <1>14. ASSUME NEW ps \in SUBSET Phones, ZillowEdit(ps) PROVE TypeOK'
    <2>1. edits' \in 0..MaxZillow
      BY <1>14 DEF ZillowEdit, TypeOK
    <2> QED
      BY <1>14, <2>1, GroupFields DEF ZillowEdit, TypeOK
  <1>15. CASE Crash
    <2>1. job \in JobRow /\ job.phone \in Phones
      BY <1>15, JobTyped DEF Crash, JobRow
    <2>2. hit' \in [Phones -> SUBSET Kinds] /\ upsets' \in 0..MaxUpsets
      BY <1>15, <2>1, UpsetFields DEF Crash, Kinds
    <2>3. job' = None /\ ended' \subseteq Phones \X (0..MaxTime) /\ queue' \in Seq(Waiting)
      <3>1. CASE job.runs = 1
        <4>1. [phone |-> job.phone, runs |-> 2] \in Waiting
          BY <2>1 DEF Waiting
        <4>2. <<[phone |-> job.phone, runs |-> 2]>> \in Seq(Waiting) /\ queue \in Seq(Waiting)
          BY <4>1 DEF TypeOK
        <4>3. <<[phone |-> job.phone, runs |-> 2]>> \o queue \in Seq(Waiting)
          BY <4>2, ConcatProperties
        <4>4. /\ queue' = <<[phone |-> job.phone, runs |-> 2]>> \o queue
              /\ job' = None /\ UNCHANGED ended
          BY <1>15, <3>1 DEF Crash
        <4> QED
          BY <4>3, <4>4 DEF TypeOK
      <3>2. CASE job.runs # 1
        BY <1>15, <2>1, <3>2, FinishFields DEF Crash, TypeOK
      <3> QED
        BY <3>1, <3>2
    <2> QED
      BY <1>15, <2>2, <2>3 DEF Crash, TypeOK
  <1>16. CASE UNCHANGED vars
    BY <1>16 DEF vars, TypeOK
  <1> QED
    BY <1>1, <1>2, <1>3, <1>4, <1>5, <1>6, <1>7, <1>8, <1>9, <1>10, <1>11, <1>12, <1>13,
       <1>14, <1>15, <1>16 DEF Next

--------------------------------------------------------------------------------
(* What any step keeps, whatever else it does. *)

LEMMA WentStays ==
    ASSUME Grown, NEW p \in Phones, NEW K, Went(p, K)
    PROVE  Went(p, K)'
  BY DEF Grown, Went

\* What has served a caller still does, while no response is taken from zaps.
LEMMA ServedStays ==
    ASSUME TypeOK, TypeOK', Grown, NEW p \in Phones, NEW t \in Int, Served(p, t), p \in zaps => p \in zaps'
    PROVE  Served(p, t)'
  <1>1. CASE Went(p, {"read", "crash", "post", "absent", "lag"})
    BY <1>1, WentStays DEF Served
  <1>2. CASE linked[p] >= t
    <2>1. linked[p] \in Int /\ linked'[p] \in Int
      BY Bounds DEF TypeOK, Never
    <2>2. linked[p] <= linked'[p]
      BY DEF Grown
    <2> QED
      BY <1>2, <2>1, <2>2 DEF Served
  <1>3. CASE p \in optedOut \/ p \in zaps
    BY <1>3 DEF Served, Grown
  <1> QED
    BY <1>1, <1>2, <1>3 DEF Served

\* A caller served by one time was served by an earlier one.
LEMMA ServedBefore ==
    ASSUME TypeOK, NEW p \in Phones, NEW t \in Int, NEW u \in Int, u <= t, Served(p, t)
    PROVE  Served(p, u)
  <1>1. linked[p] \in Int
    BY Bounds DEF TypeOK, Never
  <1> QED
    BY <1>1 DEF Served

\* A send once recorded stays recorded, unless the job was about to record it.
LEMMA RecordedStays ==
    ASSUME TypeOK, TypeOK', Grown, NEW p \in Phones, Recorded(p), fired'[p] = fired[p],
           Mine(p, {"record"}) => Recorded(p)'
    PROVE  Recorded(p)'
  <1>1. CASE \E t \in 0..MaxTime : <<p, t>> \in ledger /\ t >= fired[p]
    BY <1>1 DEF Recorded, Grown
  <1>2. CASE method = "api" /\ Went(p, {"lost", "record", "crash"})
    <2>1. Went(p, {"lost", "record", "crash"})'
      BY <1>2, WentStays
    <2> QED
      BY <1>2, <2>1 DEF Recorded, Grown
  <1>3. CASE fired[p] = Never
    BY <1>3 DEF Recorded, Never
  <1> QED
    BY <1>1, <1>2, <1>3 DEF Recorded

\* The second sends are the ones of before and those of one caller whose first
\* was lost on the API path.
LEMMA RepeatsStay ==
    ASSUME TypeOK, TypeOK', Grown, Repeats, NEW p \in Phones,
           \A q \in twice' : q \in twice \/ (q = p /\ method = "api" /\ Went(p, {"lost", "record", "crash"}))
    PROVE  Repeats'
  <1> SUFFICES ASSUME NEW q \in twice'
               PROVE  method' = "api" /\ Went(q, {"lost", "record", "crash"})'
    BY DEF Repeats
  <1>1. q \in Phones /\ method = "api" /\ Went(q, {"lost", "record", "crash"})
    BY DEF TypeOK, Repeats
  <1> QED
    BY <1>1, WentStays DEF Grown

LEMMA StraysStay ==
    ASSUME Grown, Strays, strays' = strays
    PROVE  Strays'
  BY WentStays DEF Strays

\* A response is still its job's, or what went wrong is noted.
LEMMA PendingStays ==
    ASSUME TypeOK, Grown, Pending, zaps' \subseteq zaps,
           \A p \in zaps : Mine(p, {"settle"}) => Mine(p, {"settle"})' \/ Went(p, {"lag", "post", "crash"})'
    PROVE  Pending'
  <1> SUFFICES ASSUME NEW p \in zaps'
               PROVE  Mine(p, {"settle"})' \/ Went(p, {"lag", "post", "crash"})'
    BY DEF Pending
  <1>1. p \in zaps /\ p \in Phones
    BY DEF TypeOK
  <1>2. Mine(p, {"settle"}) \/ Went(p, {"lag", "post", "crash"})
    BY <1>1 DEF Pending
  <1> QED
    BY <1>1, <1>2, WentStays

\* A job that is over is served, if it was when it ended.
LEMMA EndedStay ==
    ASSUME TypeOK, TypeOK', Grown, EndedServed, zaps \subseteq zaps',
           \A e \in ended' \ ended : Served(e[1], e[2] - Cooldown)'
    PROVE  EndedServed'
  <1> SUFFICES ASSUME NEW e \in ended, e \in ended'
               PROVE  Served(e[1], e[2] - Cooldown)'
    BY DEF EndedServed
  <1>1. e[1] \in Phones /\ e[2] - Cooldown \in Int
    BY Bounds DEF TypeOK
  <1>2. Served(e[1], e[2] - Cooldown)
    BY DEF EndedServed
  <1> QED
    BY <1>1, <1>2, ServedStays

\* A row is served, or its job still sends; a job that stops sending serves it.
LEMMA RowsStay ==
    ASSUME TypeOK, TypeOK', Grown, LedgerServed, zaps \subseteq zaps',
           \A e \in ledger : Mine(e[1], {"fire", "relay"}) =>
               Mine(e[1], {"fire", "relay"})' \/ Served(e[1], e[2])',
           \A e \in ledger' \ ledger : Served(e[1], e[2])' \/ Mine(e[1], {"fire", "relay"})'
    PROVE  LedgerServed'
  <1> SUFFICES ASSUME NEW e \in ledger, e \in ledger'
               PROVE  Served(e[1], e[2])' \/ Mine(e[1], {"fire", "relay"})'
    BY DEF LedgerServed
  <1>1. e[1] \in Phones /\ e[2] \in Int
    BY Bounds DEF TypeOK
  <1>2. Served(e[1], e[2]) \/ Mine(e[1], {"fire", "relay"})
    BY DEF LedgerServed
  <1> QED
    BY <1>1, <1>2, ServedStays

\* Where the times come from.
LEMMA TimesStay ==
    ASSUME TypeOK, TypeOK', Timely, clock <= clock',
           \A p \in Phones : linked'[p] = linked[p] \/ linked'[p] = clock,
           \A e \in ledger' : e \in ledger \/ e[2] = clock,
           \A e \in ended' : e \in ended \/ e[2] <= clock
    PROVE  Timely'
  <1>1. clock \in Int /\ clock' \in Int
    BY Bounds DEF TypeOK
  <1>2. ASSUME NEW p \in Phones PROVE linked'[p] <= clock'
    <2>1. linked[p] \in Int /\ linked[p] <= clock
      BY Bounds DEF TypeOK, Timely, Never
    <2> QED
      BY <1>1, <2>1
  <1>3. ASSUME NEW e \in ledger' \cup ended' PROVE e[2] <= clock'
    <2>1. e[2] \in Int
      BY Bounds DEF TypeOK
    <2>2. e[2] <= clock
      BY <1>1 DEF Timely
    <2> QED
      BY <1>1, <2>1, <2>2
  <1> QED
    BY <1>2, <1>3 DEF Timely

--------------------------------------------------------------------------------
(* The steps around the lane, which leave the job, its sends and the callers' *)
(* group alone.                                                               *)

LEMMA OutsideKeeps ==
    ASSUME Inv, TypeOK', Grown, clock' >= clock,
           UNCHANGED <<job, ledger, zaps, linked, fired, twice, strays, hit, ended>>,
           member'["callers"] = member["callers"],
           job # None /\ job.pc = "record" => clock' = clock
    PROVE  Inv'
  <1> USE DEF Inv
  <1>1. Timely'
    BY TimesStay DEF Grown
  <1>2. Paths'
    <2> SUFFICES ASSUME job # None PROVE Paths'
      BY DEF Paths
    <2>1. job \in JobRow /\ job.now \in Int /\ clock \in Int /\ clock' \in Int
      BY JobTyped, Bounds DEF TypeOK, JobRow
    <2> QED
      BY <2>1 DEF Paths, Grown
  <1>3. ASSUME NEW p \in Phones PROVE Recorded(p)'
    BY <1>3 DEF Recorded, Went, Mine, Grown
  <1>4. Checked' /\ Repeats'
    BY DEF Checked, Repeats, Went, Grown
  <1>5. Grouped' /\ Pending' /\ Strays'
    BY DEF Grouped, Pending, Strays, Went, Mine
  <1>6. LedgerServed'
    BY RowsStay DEF Mine
  <1>7. EndedServed'
    BY EndedStay
  <1>8. Settling'
    BY DEF Settling, Served, Went, Grown
  <1> QED
    BY <1>1, <1>2, <1>3, <1>4, <1>5, <1>6, <1>7, <1>8

LEMMA TickKeeps == Inv /\ TypeOK' /\ Tick => Inv'
  <1> SUFFICES ASSUME Inv, TypeOK', Tick PROVE Inv'
    OBVIOUS
  <1>1. clock \in Int /\ clock' = clock + 1 /\ \A p \in Phones : linked[p] \in Int
    BY Bounds DEF Inv, TypeOK, Tick, Never
  <1>2. Grown /\ clock' >= clock
    BY <1>1 DEF Grown, Tick, past
  <1> QED
    BY <1>2, OutsideKeeps DEF Tick, At, lane, tea, past

\* Nothing in a neighbour's step is taken back.
LEMMA SameGrown ==
    ASSUME TypeOK, UNCHANGED <<method, clock, ledger, linked, hit>>, optedOut \subseteq optedOut'
    PROVE  Grown /\ clock' >= clock
  <1>1. clock \in Int /\ \A p \in Phones : linked[p] \in Int
    BY Bounds DEF TypeOK, Never
  <1> QED
    BY <1>1 DEF Grown

LEMMA NeighboursKeep ==
    ASSUME Inv, TypeOK',
           \/ \E p \in Phones : Stop(p) \/ Request(p)
           \/ \E ps \in SUBSET Phones : ZillowEdit(ps)
           \/ UNCHANGED vars
    PROVE  Inv'
  <1> USE DEF Inv, lane, tea, env, past
  <1>1. ASSUME NEW p \in Phones, Stop(p) PROVE Inv'
    <2>1. Grown /\ clock' >= clock
      BY <1>1, SameGrown DEF Stop
    <2> QED
      BY <1>1, <2>1, OutsideKeeps DEF Stop
  <1>2. ASSUME NEW p \in Phones, Request(p) PROVE Inv'
    <2>1. Grown /\ clock' >= clock
      BY <1>2, SameGrown DEF Request
    <2> QED
      BY <1>2, <2>1, OutsideKeeps DEF Request
  <1>3. ASSUME NEW ps \in SUBSET Phones, ZillowEdit(ps) PROVE Inv'
    <2>1. Grown /\ clock' >= clock
      BY <1>3, SameGrown DEF ZillowEdit
    <2>2. member'["callers"] = member["callers"]
      BY <1>3, GroupFields DEF ZillowEdit
    <2> QED
      BY <1>3, <2>1, <2>2, OutsideKeeps DEF ZillowEdit
  <1>4. CASE UNCHANGED vars
    <2>1. Grown /\ clock' >= clock
      BY <1>4, SameGrown DEF vars
    <2> QED
      BY <1>4, <2>1, OutsideKeeps DEF vars
  <1> QED
    BY <1>1, <1>2, <1>3, <1>4

\* A job begins at its check with the time it reads.
LEMMA TakeKeeps == Inv /\ TypeOK' /\ Take => Inv'
  <1> SUFFICES ASSUME Inv, TypeOK', Take PROVE Inv'
    OBVIOUS
  <1> USE DEF Inv
  <1>1. job = None /\ job'.pc = "check" /\ job'.now = clock /\ clock \in Int
    BY Bounds DEF Take, TypeOK
  <1>2. UNCHANGED <<method, clock, optedOut, ledger, member, zaps, linked, fired, twice, strays, hit, ended>>
    BY DEF Take, tea, env, past
  <1>3. Grown
    BY <1>2, SameGrown
  <1>4. \A p : \A s \in {"record", "settle", "fire", "relay"} : ~Mine(p, {s}) /\ ~Mine(p, {"fire", "relay"})
    BY <1>1 DEF Mine
  <1>5. Timely' /\ Paths' /\ Checked' /\ Grouped' /\ Settling'
    BY <1>1, <1>2 DEF Timely, Paths, Checked, Grouped, Settling
  <1>6. \A p \in Phones : Recorded(p)'
    BY <1>2, <1>3, <1>4, RecordedStays
  <1>7. Repeats' /\ Strays' /\ Pending'
    BY <1>2, <1>3, <1>4, PendingStays, StraysStay DEF Repeats, Went
  <1>8. LedgerServed' /\ EndedServed'
    BY <1>2, <1>3, <1>4, RowsStay, EndedStay
  <1> QED
    BY <1>5, <1>6, <1>7, <1>8

--------------------------------------------------------------------------------
(* The job's own steps. *)

LEMMA LaneGrown ==
    ASSUME TypeOK, Timely, UNCHANGED <<method, clock, optedOut>>, ledger \subseteq ledger',
           linked' = linked \/ \E ps \in SUBSET Phones : Link(ps),
           \A p \in Phones : hit[p] \subseteq hit'[p]
    PROVE  Grown /\ clock <= clock' /\ \A p \in Phones : linked'[p] = linked[p] \/ linked'[p] = clock
  <1>1. clock \in Int /\ \A p \in Phones : linked[p] \in Int /\ linked[p] <= clock
    BY Bounds DEF TypeOK, Timely, Never
  <1>2. \A p \in Phones : linked'[p] = linked[p] \/ linked'[p] = clock
    <2>1. ASSUME NEW ps \in SUBSET Phones, Link(ps)
          PROVE  \A p \in Phones : linked'[p] = linked[p] \/ linked'[p] = clock
      BY <2>1, LinkFields
    <2> QED
      BY <2>1
  <1> QED
    BY <1>1, <1>2 DEF Grown

\* An upset or none.
LEMMA HitGrown ==
    ASSUME TypeOK, NEW p \in Phones,
           UNCHANGED hit \/ \E kind \in Kinds : Upset(p, kind)
    PROVE  \A q \in Phones : hit[q] \subseteq hit'[q]
  BY UpsetFields

\* What the job under way is at a stage, and is not.
LEMMA JobAt ==
    ASSUME Inv, NEW s, At(s)
    PROVE  /\ job \in JobRow /\ job # None /\ job.pc = s
           /\ job.phone \in Phones /\ job.now \in Int /\ job.now >= 0 /\ job.now <= clock
           /\ clock \in 0..MaxTime /\ clock \in Int /\ \A p \in Phones : linked[p] \in Int /\ linked[p] <= clock
           /\ \A p, S : Mine(p, S) <=> p = job.phone /\ s \in S
  <1>1. job \in JobRow /\ job # None /\ job.pc = s
    BY JobTyped DEF Inv, At
  <1>2. clock \in 0..MaxTime /\ \A p \in Phones : linked[p] \in Int /\ linked[p] <= clock
    BY Bounds DEF Inv, TypeOK, Timely, Never
  <1>3. job.phone \in Phones /\ job.now \in Int /\ job.now >= 0 /\ job.now <= clock
    BY <1>1, Bounds DEF JobRow, Inv, Paths
  <1> QED
    BY <1>1, <1>2, <1>3, Bounds DEF Mine

\* A job that has ended leaves nothing to its own stages.
LEMMA NoJob ==
    ASSUME job' = None
    PROVE  Paths' /\ Checked' /\ Grouped' /\ Settling' /\ \A p, S : ~Mine(p, S)'
  BY DEF Paths, Checked, Grouped, Settling, Mine

\* The cooldown's reading of the ledger, from what the ledger records.
LEMMA CheckKeeps == Inv /\ TypeOK' /\ Check => Inv'
  <1> SUFFICES ASSUME Inv, TypeOK', Check PROVE Inv'
    OBVIOUS
  <1> USE DEF Inv
  <1>0. At("check")
    BY DEF Check
  <1>1. /\ job \in JobRow /\ job # None /\ job.pc = "check"
        /\ job.phone \in Phones /\ job.now \in Int /\ job.now >= 0 /\ job.now <= clock
        /\ \A p, S : Mine(p, S) <=> p = job.phone /\ "check" \in S
    BY <1>0, JobAt
  <1>2. UNCHANGED <<method, clock, optedOut, ledger, member, zaps, linked, fired, twice, strays>>
    BY DEF Check, tea, env
  <1>3. \A q \in Phones : hit[q] \subseteq hit'[q]
    BY <1>1, HitGrown DEF Check, Kinds
  <1>4. Grown /\ clock <= clock' /\ \A p \in Phones : linked'[p] = linked[p] \/ linked'[p] = clock
    BY <1>2, <1>3, LaneGrown
  <1>5. (\A p \in Phones : Recorded(p)') /\ Repeats' /\ Strays'
    <2>1. \A p \in Phones : Recorded(p)'
      BY <1>1, <1>2, <1>4, RecordedStays
    <2>2. Repeats'
      BY <1>1, <1>2, <1>4, RepeatsStay
    <2> QED
      BY <1>2, <1>4, <2>1, <2>2, StraysStay
  <1>6. Pending' /\ LedgerServed'
    BY <1>1, <1>2, <1>4, PendingStays, RowsStay
  <1>7. CASE Finish
    <2>1. job' = None /\ ended' = ended \cup {<<job.phone, job.now>>}
      BY <1>1, <1>7, FinishFields
    <2>2. Paths' /\ Checked' /\ Grouped' /\ Settling'
      BY <2>1, NoJob
    <2>3. PICK p, n : p = job.phone /\ n = job.now
      OBVIOUS
    <2>4. Served(p, n - Cooldown)'
      <3>1. CASE p \in optedOut
        BY <3>1, <1>2 DEF Served
      <3>2. CASE FiredRecently(p, n)
        <4>1. PICK t \in 0..MaxTime : <<p, t>> \in ledger /\ t >= n - Cooldown
          BY <3>2 DEF FiredRecently
        <4>2. Served(p, t)
          BY <4>1, <1>1, <2>3 DEF LedgerServed
        <4>3. Served(p, n - Cooldown)
          BY <1>1, <2>3, <4>1, <4>2, ServedBefore, Bounds
        <4> QED
          BY <1>1, <1>2, <1>4, <2>3, <4>3, ServedStays, Bounds
      <3>3. CASE Upset(job.phone, "read")
        BY <1>1, <2>3, <3>3, UpsetFields DEF Served, Went, Kinds
      <3>4. CASE Goto(IF method = "api" THEN "broadcast" ELSE "edit")
        BY <1>1, <2>1, <3>4, GotoFields
      <3> QED
        BY <2>3, <3>1, <3>2, <3>3, <3>4 DEF Check
    <2>5. EndedServed'
      BY <1>2, <1>4, <2>1, <2>3, <2>4, EndedStay
    <2>6. Timely'
      BY <1>1, <1>2, <1>4, <2>1, TimesStay
    <2> QED
      BY <1>5, <1>6, <2>2, <2>5, <2>6
  <1>8. CASE /\ ~FiredRecently(job.phone, job.now) /\ UNCHANGED <<hit, ended>>
             /\ Goto(IF method = "api" THEN "broadcast" ELSE "edit")
    <2>1. PICK s \in {"broadcast", "edit"} : Goto(s) /\ (s = "broadcast" <=> method = "api")
      BY <1>8 DEF TypeOK
    <2>2. job' # None /\ job'.pc = s /\ job'.phone = job.phone /\ job'.now = job.now
      BY <1>1, <2>1, GotoFields
    <2>3. Paths' /\ Grouped' /\ Settling'
      BY <1>1, <1>2, <2>1, <2>2 DEF Paths, Grouped, Settling, TypeOK
    <2>4. Checked'
      <3>1. fired[job.phone] \in Int /\ Never < job.now - Cooldown
        BY <1>1, Bounds DEF TypeOK, Never
      <3>2. CASE fired[job.phone] = Never
        BY <1>2, <2>2, <3>1, <3>2 DEF Checked
      <3>3. CASE \E t \in 0..MaxTime : <<job.phone, t>> \in ledger /\ t >= fired[job.phone]
        <4>1. PICK t \in 0..MaxTime : <<job.phone, t>> \in ledger /\ t >= fired[job.phone]
          BY <3>3
        <4>2. t < job.now - Cooldown
          BY <1>1, <1>8, <4>1, Bounds DEF FiredRecently
        <4>3. fired[job.phone] < job.now - Cooldown
          BY <1>1, <3>1, <4>1, <4>2, Bounds
        <4> QED
          BY <1>2, <2>2, <4>3 DEF Checked
      <3>4. CASE method = "api" /\ Went(job.phone, {"lost", "record", "crash"})
        BY <1>2, <1>8, <2>2, <3>4 DEF Checked, Went
      <3> QED
        BY <1>1, <3>2, <3>3, <3>4 DEF Recorded
    <2>5. EndedServed'
      BY <1>2, <1>4, <1>8, EndedStay
    <2>6. Timely'
      BY <1>2, <1>4, <1>8, TimesStay
    <2> QED
      BY <1>5, <1>6, <2>3, <2>4, <2>5, <2>6
  <1> QED
    BY <1>7, <1>8 DEF Check

\* The direct API's send: reported, refused, or sent with its reply lost.
LEMMA BroadcastKeeps == Inv /\ TypeOK' /\ Broadcast => Inv'
  <1> SUFFICES ASSUME Inv, TypeOK', Broadcast PROVE Inv'
    OBVIOUS
  <1> USE DEF Inv
  <1>0. At("broadcast")
    BY DEF Broadcast
  <1>1. /\ job \in JobRow /\ job # None /\ job.pc = "broadcast"
        /\ job.phone \in Phones /\ job.now \in Int /\ job.now >= 0 /\ job.now <= clock
        /\ \A p, S : Mine(p, S) <=> p = job.phone /\ "broadcast" \in S
    BY <1>0, JobAt
  <1>2. UNCHANGED <<method, clock, optedOut, ledger, member, zaps, strays, ended>> /\ method = "api"
    BY <1>1 DEF Broadcast, tea, env, Paths
  <1>3. \A q \in Phones : hit[q] \subseteq hit'[q]
    BY <1>1, HitGrown DEF Broadcast, Kinds
  <1>4. linked' = linked \/ Link({job.phone})
    BY DEF Broadcast
  <1>5. Grown /\ clock <= clock' /\ \A p \in Phones : linked'[p] = linked[p] \/ linked'[p] = clock
    BY <1>1, <1>2, <1>3, <1>4, LaneGrown
  <1>6. PICK s \in {"record", "relay"} : Goto(s) /\ (s = "record" => Link({job.phone}) /\ Fire(job.phone))
    BY DEF Broadcast
  <1>7. job' # None /\ job'.pc = s /\ job'.phone = job.phone /\ job'.now = job.now
    BY <1>1, <1>6, GotoFields
  <1>8. Timely' /\ EndedServed'
    BY <1>2, <1>5, TimesStay, EndedStay
  <1>9. Paths' /\ Checked' /\ Grouped' /\ Settling'
    <2>1. s = "record" => linked'[job.phone] = clock
      BY <1>1, <1>6, LinkFields
    <2> QED
      BY <1>1, <1>2, <1>6, <1>7, <2>1 DEF Paths, Checked, Grouped, Settling
  <1>10. Pending' /\ Strays' /\ LedgerServed'
    BY <1>1, <1>2, <1>5, PendingStays, StraysStay, RowsStay
  <1>11. CASE UNCHANGED <<fired, twice>> /\ s = "relay"
    <2>1. \A p \in Phones : Recorded(p)'
      BY <1>1, <1>5, <1>11, RecordedStays
    <2>2. Repeats'
      BY <1>1, <1>5, <1>11, RepeatsStay
    <2> QED
      BY <1>8, <1>9, <1>10, <2>1, <2>2
  <1>12. CASE Fire(job.phone) /\ (s = "record" \/ Upset(job.phone, "lost"))
    <2>1. /\ fired'[job.phone] = job.now /\ \A q \in Phones : q # job.phone => fired'[q] = fired[q]
          /\ \A q \in twice' : q \in twice \/ (q = job.phone /\ fired[job.phone] >= job.now - Cooldown)
      BY <1>1, <1>12, FireFields
    <2>2. ASSUME NEW p \in Phones, p # job.phone PROVE Recorded(p)'
      BY <1>1, <1>5, <2>1, <2>2, RecordedStays
    <2>3. ASSUME NEW p \in Phones, p = job.phone PROVE Recorded(p)'
      <3>1. CASE s = "record"
        BY <1>7, <2>1, <2>3, <3>1 DEF Recorded, Mine
      <3>2. CASE Upset(job.phone, "lost")
        BY <1>1, <1>2, <2>3, <3>2, UpsetFields DEF Recorded, Went, Kinds
      <3> QED
        BY <1>12, <3>1, <3>2
    <2>4. Repeats'
      <3>1. PICK p \in Phones : p = job.phone
        BY <1>1
      <3>2. fired[p] \in Int
        BY Bounds DEF TypeOK, Never
      <3>3. fired[p] >= job.now - Cooldown => Went(p, {"lost", "record", "crash"})
        BY <1>1, <3>1, <3>2, Bounds DEF Checked
      <3> QED
        BY <1>2, <1>5, <2>1, <3>1, <3>3, RepeatsStay
    <2> QED
      BY <1>8, <1>9, <1>10, <2>2, <2>3, <2>4
  <1>13. (UNCHANGED <<fired, twice>> /\ s = "relay") \/ (Fire(job.phone) /\ (s = "record" \/ Upset(job.phone, "lost")))
    <2>1. CASE Goto("record") /\ Fire(job.phone)
      BY <1>1, <1>7, <2>1, GotoFields
    <2>2. CASE Goto("relay") /\ UNCHANGED <<fired, twice>>
      BY <1>1, <1>7, <2>2, GotoFields
    <2>3. CASE Upset(job.phone, "lost") /\ Fire(job.phone)
      BY <2>3
    <2> QED
      BY <2>1, <2>2, <2>3 DEF Broadcast
  <1> QED
    BY <1>11, <1>12, <1>13

\* The send is in the ledger, or its record's failure is noted.
LEMMA RecordKeeps == Inv /\ TypeOK' /\ Record => Inv'
  <1> SUFFICES ASSUME Inv, TypeOK', Record PROVE Inv'
    OBVIOUS
  <1> USE DEF Inv
  <1>0. At("record")
    BY DEF Record
  <1>1. /\ job \in JobRow /\ job # None /\ job.pc = "record"
        /\ job.phone \in Phones /\ job.now \in Int /\ job.now >= 0 /\ job.now <= clock
        /\ clock \in 0..MaxTime /\ clock \in Int
        /\ \A p, S : Mine(p, S) <=> p = job.phone /\ "record" \in S
    BY <1>0, JobAt
  <1>2. /\ UNCHANGED <<method, clock, optedOut, member, zaps, linked, fired, twice, strays>>
        /\ method = "api" /\ linked[job.phone] = clock
    BY <1>1 DEF Record, tea, env, Paths
  <1>3. \A q \in Phones : hit[q] \subseteq hit'[q]
    BY <1>1, HitGrown DEF Record, Kinds
  <1>4. ledger' = ledger \/ ledger' = ledger \cup {<<job.phone, clock>>}
    BY DEF Record
  <1>5. Grown /\ clock <= clock' /\ \A p \in Phones : linked'[p] = linked[p] \/ linked'[p] = clock
    BY <1>2, <1>3, <1>4, LaneGrown
  <1>6. job' = None /\ ended' = ended \cup {<<job.phone, job.now>>}
    BY <1>1, FinishFields DEF Record
  <1>7. Paths' /\ Checked' /\ Grouped' /\ Settling'
    BY <1>6, NoJob
  <1>8. Timely'
    BY <1>1, <1>4, <1>5, <1>6, TimesStay
  <1>9. PICK p, n, c : p = job.phone /\ n = job.now /\ c = clock
    OBVIOUS
  <1>10. Served(p, c)' /\ Served(p, n - Cooldown)'
    BY <1>1, <1>2, <1>9, Bounds DEF Served
  <1>11. EndedServed' /\ LedgerServed'
    <2>1. EndedServed'
      BY <1>2, <1>5, <1>6, <1>9, <1>10, EndedStay
    <2>2. LedgerServed'
      BY <1>1, <1>2, <1>4, <1>5, <1>9, <1>10, RowsStay
    <2> QED
      BY <2>1, <2>2
  <1>12. Pending' /\ Strays' /\ Repeats'
    BY <1>1, <1>2, <1>5, PendingStays, StraysStay, RepeatsStay
  <1>13. Recorded(p)'
    <2>1. CASE ledger' = ledger \cup {<<job.phone, clock>>}
      <3>1. CASE fired[p] = job.now
        BY <1>1, <1>2, <1>9, <2>1, <3>1 DEF Recorded
      <3>2. CASE fired[p] # job.now
        BY <1>1, <1>2, <1>3, <1>9, <2>1, <3>2 DEF Recorded, Mine, Went
      <3> QED
        BY <3>1, <3>2
    <2>2. CASE Upset(job.phone, "record")
      BY <1>1, <1>2, <1>9, <2>2, UpsetFields DEF Recorded, Went, Kinds
    <2> QED
      BY <2>1, <2>2 DEF Record
  <1>14. \A q \in Phones : Recorded(q)'
    <2>1. ASSUME NEW q \in Phones, q # p PROVE Recorded(q)'
      BY <1>1, <1>2, <1>5, <1>9, <2>1, RecordedStays
    <2> QED
      BY <1>13, <2>1
  <1> QED
    BY <1>7, <1>8, <1>11, <1>12, <1>14

\* The form path points the callers' group at its caller.
LEMMA EditKeeps == Inv /\ TypeOK' /\ Edit => Inv'
  <1> SUFFICES ASSUME Inv, TypeOK', Edit PROVE Inv'
    OBVIOUS
  <1> USE DEF Inv
  <1>0. At("edit")
    BY DEF Edit
  <1>1. /\ job \in JobRow /\ job # None /\ job.pc = "edit"
        /\ job.phone \in Phones /\ job.now \in Int /\ job.now >= 0 /\ job.now <= clock
        /\ \A p, S : Mine(p, S) <=> p = job.phone /\ "edit" \in S
    BY <1>0, JobAt
  <1>2. /\ UNCHANGED <<method, clock, optedOut, ledger, zaps, linked, fired, twice, strays, ended>>
        /\ method = "form"
    BY <1>1 DEF Edit, env, Paths
  <1>3. CASE /\ member' = SetGroup("callers", {job.phone}) /\ Goto("claim")
             /\ hit' = IF job.phone \in member'["callers"] THEN hit
                       ELSE [hit EXCEPT ![job.phone] = @ \cup {"absent"}]
    <2>1. job' # None /\ job'.pc = "claim" /\ job'.phone = job.phone /\ job'.now = job.now
      BY <1>1, <1>3, GotoFields
    <2>2. \A q \in Phones : hit[q] \subseteq hit'[q]
      BY <1>3 DEF TypeOK
    <2>3. Grouped'
      <3>1. member'["callers"] \subseteq {job.phone}
        BY <1>1, <1>3, GroupFields
      <3>2. job.phone \in member'["callers"] \/ "absent" \in hit'[job.phone]
        BY <1>1, <1>3 DEF TypeOK
      <3> QED
        BY <2>1, <3>1, <3>2 DEF Grouped, Went
    <2>4. Checked' /\ Paths' /\ Settling'
      BY <1>1, <1>2, <2>1, <2>2 DEF Checked, Paths, Settling
    <2> QED
      <3>1. Grown /\ clock <= clock' /\ \A p \in Phones : linked'[p] = linked[p] \/ linked'[p] = clock
        BY <1>2, <2>2, LaneGrown
      <3>2. Timely' /\ EndedServed' /\ LedgerServed'
        BY <1>1, <1>2, <3>1, TimesStay, EndedStay, RowsStay
      <3>3. Pending' /\ Strays' /\ Repeats'
        BY <1>1, <1>2, <3>1, PendingStays, StraysStay, RepeatsStay
      <3>4. \A p \in Phones : Recorded(p)'
        BY <1>1, <1>2, <3>1, RecordedStays
      <3> QED
        BY <2>3, <2>4, <3>2, <3>3, <3>4
  <1>4. CASE Upset(job.phone, "refused") /\ Goto("relay")
    <2>1. job' # None /\ job'.pc = "relay" /\ job'.phone = job.phone /\ job'.now = job.now
      BY <1>1, <1>4, GotoFields
    <2>2. \A q \in Phones : hit[q] \subseteq hit'[q]
      BY <1>1, <1>4, HitGrown DEF Kinds
    <2>3. Grouped' /\ Checked' /\ Paths' /\ Settling'
      BY <1>1, <1>2, <2>1 DEF Grouped, Checked, Paths, Settling
    <2>4. Grown /\ clock <= clock' /\ \A p \in Phones : linked'[p] = linked[p] \/ linked'[p] = clock
      BY <1>2, <2>2, LaneGrown
    <2>5. Timely' /\ EndedServed' /\ LedgerServed'
      BY <1>1, <1>2, <2>4, TimesStay, EndedStay, RowsStay
    <2>6. Pending' /\ Strays' /\ Repeats'
      BY <1>1, <1>2, <2>4, PendingStays, StraysStay, RepeatsStay
    <2>7. \A p \in Phones : Recorded(p)'
      BY <1>1, <1>2, <2>4, RecordedStays
    <2> QED
      BY <2>3, <2>5, <2>6, <2>7
  <1> QED
    BY <1>3, <1>4 DEF Edit

\* The month's count decides between the form and the relay.
LEMMA ClaimKeeps == Inv /\ TypeOK' /\ Claim => Inv'
  <1> SUFFICES ASSUME Inv, TypeOK', Claim PROVE Inv'
    OBVIOUS
  <1> USE DEF Inv
  <1>0. At("claim")
    BY DEF Claim
  <1>1. /\ job \in JobRow /\ job # None /\ job.pc = "claim"
        /\ job.phone \in Phones /\ job.now \in Int /\ job.now >= 0 /\ job.now <= clock
        /\ clock \in 0..MaxTime
        /\ \A p, S : Mine(p, S) <=> p = job.phone /\ "claim" \in S
    BY <1>0, JobAt
  <1>2. /\ UNCHANGED <<method, clock, optedOut, member, zaps, linked, fired, twice, strays, hit, ended>>
        /\ method = "form"
    BY <1>1 DEF Claim, tea, env, past, Paths
  <1>3. PICK s \in {"fire", "relay"} :
            /\ Goto(s)
            /\ ledger' = IF s = "fire" THEN ledger \cup {<<job.phone, clock>>} ELSE ledger
    BY DEF Claim
  <1>4. job' # None /\ job'.pc = s /\ job'.phone = job.phone /\ job'.now = job.now
    BY <1>1, <1>3, GotoFields
  <1>5. Grown /\ clock <= clock' /\ \A p \in Phones : linked'[p] = linked[p] \/ linked'[p] = clock
    BY <1>2, <1>3, LaneGrown
  <1>6. Grouped' /\ Checked' /\ Settling'
    BY <1>1, <1>2, <1>3, <1>4 DEF Grouped, Checked, Settling, Went
  <1>7. Paths'
    <2>1. s = "fire" => <<job.phone, clock>> \in ledger'
      BY <1>3
    <2> QED
      BY <1>1, <1>2, <1>4, <2>1 DEF Paths
  <1>8. Timely' /\ EndedServed'
    BY <1>2, <1>3, <1>5, TimesStay, EndedStay
  <1>9. LedgerServed'
    <2>1. \A e \in ledger' \ ledger : Mine(e[1], {"fire", "relay"})'
      BY <1>3, <1>4 DEF Mine
    <2> QED
      BY <1>1, <1>2, <1>5, <2>1, RowsStay
  <1>10. Pending' /\ Strays' /\ Repeats'
    BY <1>1, <1>2, <1>5, PendingStays, StraysStay, RepeatsStay
  <1>11. \A p \in Phones : Recorded(p)'
    BY <1>1, <1>2, <1>5, RecordedStays
  <1> QED
    BY <1>6, <1>7, <1>8, <1>9, <1>10, <1>11

\* The form's post: its row was claimed first, so the send is recorded.
LEMMA PostFormKeeps == Inv /\ TypeOK' /\ PostForm => Inv'
  <1> SUFFICES ASSUME Inv, TypeOK', PostForm PROVE Inv'
    OBVIOUS
  <1> USE DEF Inv
  <1>0. At("fire")
    BY DEF PostForm
  <1>1. /\ job \in JobRow /\ job # None /\ job.pc = "fire"
        /\ job.phone \in Phones /\ job.now \in Int /\ job.now >= 0 /\ job.now <= clock
        /\ \A p, S : Mine(p, S) <=> p = job.phone /\ "fire" \in S
    BY <1>0, JobAt
  <1>2. /\ UNCHANGED <<method, clock, optedOut, ledger, member, linked, strays>> /\ method = "form"
        /\ \E t \in 0..MaxTime : <<job.phone, t>> \in ledger /\ t >= job.now
    BY <1>1 DEF PostForm, env, Paths
  <1>3. \A q \in Phones : hit[q] \subseteq hit'[q]
    BY <1>1, HitGrown DEF PostForm, Kinds
  <1>4. Grown /\ clock <= clock' /\ \A p \in Phones : linked'[p] = linked[p] \/ linked'[p] = clock
    BY <1>2, <1>3, LaneGrown
  <1>5. Strays'
    BY <1>2, <1>4, StraysStay
  \* Its post is stored, or no response came of it.
  <1>6. (\A p \in Phones : Recorded(p)') /\ Repeats' /\ zaps \subseteq zaps'
    <2>1. CASE Stored
      <3>1. /\ fired'[job.phone] = job.now /\ \A q \in Phones : q # job.phone => fired'[q] = fired[q]
            /\ \A q \in twice' : q \in twice \/ (q = job.phone /\ fired[job.phone] >= job.now - Cooldown)
        BY <1>1, <2>1, FireFields DEF Stored
      <3>2. Repeats'
        <4>1. PICK p \in Phones : p = job.phone
          BY <1>1
        <4>2. fired[p] \in Int
          BY Bounds DEF TypeOK, Never
        <4>3. ~(fired[p] >= job.now - Cooldown)
          BY <1>1, <1>2, <4>1, <4>2, Bounds DEF Checked
        <4> QED
          BY <1>4, <3>1, <4>1, <4>3, RepeatsStay
      <3>3. ASSUME NEW p \in Phones PROVE Recorded(p)'
        <4>1. CASE p = job.phone
          BY <1>2, <3>1, <4>1 DEF Recorded
        <4>2. CASE p # job.phone
          BY <1>1, <1>4, <3>1, <4>2, RecordedStays
        <4> QED
          BY <4>1, <4>2
      <3> QED
        BY <2>1, <3>2, <3>3 DEF Stored
    <2>2. CASE UNCHANGED <<zaps, fired, twice>>
      <3>1. \A p \in Phones : Recorded(p)'
        BY <1>1, <1>4, <2>2, RecordedStays
      <3>2. Repeats'
        BY <1>1, <1>4, <2>2, RepeatsStay
      <3> QED
        BY <2>2, <3>1, <3>2
    <2> QED
      BY <2>1, <2>2 DEF PostForm
  <1>7. zaps' = zaps \/ zaps' = zaps \cup {job.phone}
    BY DEF PostForm, Stored
  \* It goes on to the settle time, with its response stored or lost.
  <1>8. CASE Goto("settle") /\ UNCHANGED ended /\ (Stored \/ Upset(job.phone, "post"))
    <2>1. job' # None /\ job'.pc = "settle" /\ job'.phone = job.phone /\ job'.now = job.now
      BY <1>1, <1>8, GotoFields
    <2>2. PICK p \in Phones : p = job.phone
      BY <1>1
    <2>3. \A t : Served(p, t)'
      <3>1. CASE Stored
        BY <2>2, <3>1 DEF Served, Stored
      <3>2. CASE Upset(job.phone, "post")
        BY <2>2, <3>2, UpsetFields DEF Served, Went, Kinds
      <3> QED
        BY <1>8, <3>1, <3>2
    <2>4. Settling'
      BY <2>1, <2>2, <2>3 DEF Settling
    <2>5. Paths' /\ Checked'
      BY <1>1, <1>2, <2>1 DEF Paths, Checked
    <2>6. Grouped'
      BY <1>1, <1>2, <1>3, <2>1 DEF Grouped, Went
    <2>7. LedgerServed' /\ EndedServed'
      BY <1>1, <1>2, <1>4, <1>6, <1>8, <2>2, <2>3, RowsStay, EndedStay
    <2>8. Pending'
      <3> SUFFICES ASSUME NEW q \in zaps'
                   PROVE  Mine(q, {"settle"})' \/ Went(q, {"lag", "post", "crash"})'
        BY DEF Pending
      <3>1. CASE q = job.phone
        BY <2>1, <3>1 DEF Mine
      <3>2. CASE q # job.phone
        <4>1. q \in zaps /\ q \in Phones
          BY <1>7, <3>2 DEF TypeOK
        <4> QED
          BY <1>1, <1>4, <3>2, <4>1, WentStays DEF Pending
      <3> QED
        BY <3>1, <3>2
    <2>9. Timely'
      BY <1>2, <1>4, <1>8, TimesStay
    <2> QED
      BY <1>5, <1>6, <2>4, <2>5, <2>6, <2>7, <2>8, <2>9
  \* It was disarmed meanwhile, and the relay texts the caller.
  <1>9. CASE Goto("relay") /\ UNCHANGED <<zaps, ended>>
    <2>1. job' # None /\ job'.pc = "relay" /\ job'.phone = job.phone /\ job'.now = job.now
      BY <1>1, <1>9, GotoFields
    <2>2. Paths' /\ Checked' /\ Grouped' /\ Settling'
      BY <1>1, <1>2, <2>1 DEF Paths, Checked, Grouped, Settling
    <2>3. \A p : Mine(p, {"fire", "relay"}) => Mine(p, {"fire", "relay"})'
      BY <1>1, <2>1 DEF Mine
    <2>4. LedgerServed' /\ EndedServed'
      BY <1>2, <1>4, <1>6, <1>9, <2>3, RowsStay, EndedStay
    <2>5. Pending' /\ Timely'
      BY <1>1, <1>2, <1>4, <1>9, PendingStays, TimesStay
    <2> QED
      BY <1>5, <1>6, <2>2, <2>4, <2>5
  \* The fetch threw, and the job with it.
  <1>10. CASE Finish /\ Upset(job.phone, "post")
    <2>1. job' = None /\ ended' = ended \cup {<<job.phone, job.now>>}
      BY <1>1, <1>10, FinishFields
    <2>2. Paths' /\ Checked' /\ Grouped' /\ Settling'
      BY <2>1, NoJob
    <2>3. "post" \in hit'[job.phone]
      BY <1>1, <1>10, UpsetFields DEF Kinds
    <2>4. PICK p \in Phones, n \in Int : p = job.phone /\ n = job.now
      BY <1>1
    <2>5. (\A t : Served(p, t)') /\ Went(p, {"lag", "post", "crash"})'
      BY <2>3, <2>4 DEF Served, Went
    <2>6. LedgerServed' /\ EndedServed'
      <3>1. LedgerServed'
        BY <1>1, <1>2, <1>4, <1>6, <2>4, <2>5, RowsStay
      <3>2. EndedServed'
        BY <1>4, <1>6, <2>1, <2>4, <2>5, EndedStay
      <3> QED
        BY <3>1, <3>2
    <2>7. Pending'
      <3> SUFFICES ASSUME NEW q \in zaps' PROVE Went(q, {"lag", "post", "crash"})'
        BY DEF Pending
      <3>1. CASE q # p
        <4>1. q \in zaps /\ q \in Phones
          BY <1>7, <2>4, <3>1 DEF TypeOK
        <4> QED
          BY <1>1, <1>4, <4>1, WentStays DEF Pending
      <3> QED
        BY <2>5, <3>1
    <2>8. Timely'
      BY <1>1, <1>2, <1>4, <2>1, TimesStay
    <2> QED
      BY <1>5, <1>6, <2>2, <2>6, <2>7, <2>8
  <1> QED
    BY <1>8, <1>9, <1>10 DEF PostForm

\* The Zap reaches the group; it is its caller's, or something went wrong.
LEMMA ZapKeeps == ASSUME Inv, TypeOK', NEW p \in Phones, Zap(p) PROVE Inv'
  <1> USE DEF Inv
  <1>1. /\ UNCHANGED <<job, method, clock, optedOut, member, ledger, fired, twice, hit, ended>>
        /\ p \in zaps /\ zaps' = zaps \ {p} /\ Link(member["callers"])
        /\ strays' = strays \cup (member["callers"] \ {p})
    BY DEF Zap, lane, env
  <1>2. \A q \in Phones : linked'[q] = IF q \in member["callers"] THEN clock ELSE linked[q]
    BY <1>1, LinkFields
  <1>3. member["callers"] \in SUBSET Phones /\ clock \in Int
    BY Bounds DEF TypeOK
  <1>4. Grown /\ clock <= clock' /\ \A q \in Phones : linked'[q] = linked[q] \/ linked'[q] = clock
    BY <1>1, <1>3, LaneGrown
  <1>5. \A q, S : Mine(q, S)' <=> Mine(q, S)
    BY <1>1 DEF Mine
  <1>6. Timely' /\ Repeats' /\ Pending'
    BY <1>1, <1>4, <1>5, TimesStay, RepeatsStay, PendingStays
  <1>7. \A q \in Phones : Recorded(q)'
    BY <1>1, <1>4 DEF Recorded, Mine, Went
  <1>8. Checked' /\ Grouped' /\ Paths'
    <2>1. Checked' /\ Grouped'
      BY <1>1 DEF Checked, Grouped, Went
    <2>2. job # None /\ job.pc = "record" => linked'[job.phone] = clock
      BY <1>2, JobTyped DEF Paths, JobRow
    <2> QED
      BY <1>1, <2>1, <2>2 DEF Paths
  <1>9. (Mine(p, {"settle"}) /\ member["callers"] \subseteq {p}) \/ Went(p, {"lag", "post", "crash"})
    BY <1>1 DEF Pending, Mine, Grouped
  <1>10. Strays'
    BY <1>1, <1>9 DEF Strays, Went
  \* The one caller who leaves zaps has the link, or the reason is noted.
  <1>11. ASSUME NEW t \in Int, t <= clock PROVE Served(p, t)'
    <2>1. CASE p \in member["callers"]
      BY <1>1, <1>2, <1>11, <2>1 DEF Served
    <2>2. CASE p \notin member["callers"]
      BY <1>1, <1>9, <2>2 DEF Served, Went, Mine, Grouped
    <2> QED
      BY <2>1, <2>2
  <1>12. ASSUME NEW q \in Phones, NEW t \in Int, t <= clock, Served(q, t) PROVE Served(q, t)'
    <2>1. CASE q # p
      BY <1>1, <1>4, <1>12, <2>1, ServedStays
    <2> QED
      BY <1>11, <1>12, <2>1
  <1>13. LedgerServed'
    <2> SUFFICES ASSUME NEW e \in ledger
                 PROVE  Served(e[1], e[2])' \/ Mine(e[1], {"fire", "relay"})'
      BY <1>1 DEF LedgerServed
    <2>1. e[1] \in Phones /\ e[2] \in Int /\ e[2] <= clock
      BY Bounds DEF TypeOK, Timely
    <2> QED
      BY <1>5, <1>12, <2>1 DEF LedgerServed
  <1>14. EndedServed'
    <2> SUFFICES ASSUME NEW e \in ended PROVE Served(e[1], e[2] - Cooldown)'
      BY <1>1 DEF EndedServed
    <2>1. e[1] \in Phones /\ e[2] \in Int /\ e[2] <= clock
      BY Bounds DEF TypeOK, Timely
    <2>2. e[2] - Cooldown \in Int /\ e[2] - Cooldown <= clock
      BY <1>3, <2>1, Bounds
    <2> QED
      BY <1>12, <2>1, <2>2 DEF EndedServed
  <1>15. Settling'
    <2> SUFFICES ASSUME job # None, job.pc = "settle" PROVE Served(job.phone, job.now)'
      BY <1>1 DEF Settling
    <2>1. PICK q, n : q = job.phone /\ n = job.now
      OBVIOUS
    <2>2. q \in Phones /\ n \in Int /\ n <= clock
      BY <2>1, JobTyped, Bounds DEF JobRow, Paths
    <2>3. Served(q, n)'
      BY <1>12, <2>1, <2>2 DEF Settling
    <2> QED
      BY <1>1, <2>1, <2>3
  <1> QED
    BY <1>6, <1>7, <1>8, <1>10, <1>13, <1>14, <1>15

\* A job that stays for the settle time ends with its caller served.
LEMMA SettleKeeps == Inv /\ TypeOK' /\ Settle => Inv'
  <1> SUFFICES ASSUME Inv, TypeOK', Settle PROVE Inv'
    OBVIOUS
  <1> USE DEF Inv
  <1>0. At("settle")
    BY DEF Settle
  <1>1. /\ job \in JobRow /\ job # None /\ job.pc = "settle"
        /\ job.phone \in Phones /\ job.now \in Int /\ job.now >= 0 /\ job.now <= clock
        /\ \A p, S : Mine(p, S) <=> p = job.phone /\ "settle" \in S
    BY <1>0, JobAt
  <1>2. UNCHANGED <<method, clock, optedOut, ledger, member, zaps, linked, fired, twice, strays>>
    BY DEF Settle, tea, env
  <1>3. \A q \in Phones : hit[q] \subseteq hit'[q]
    BY <1>1, HitGrown DEF Settle, Kinds
  <1>4. Grown /\ clock <= clock' /\ \A p \in Phones : linked'[p] = linked[p] \/ linked'[p] = clock
    BY <1>2, <1>3, LaneGrown
  <1>5. job' = None /\ ended' = ended \cup {<<job.phone, job.now>>}
    BY <1>1, FinishFields DEF Settle
  <1>6. Paths' /\ Checked' /\ Grouped' /\ Settling'
    BY <1>5, NoJob
  <1>7. Timely' /\ Strays' /\ Repeats'
    BY <1>1, <1>2, <1>4, <1>5, TimesStay, StraysStay, RepeatsStay
  <1>8. \A p \in Phones : Recorded(p)'
    BY <1>1, <1>2, <1>4, RecordedStays
  <1>9. LedgerServed'
    BY <1>1, <1>2, <1>4, RowsStay
  <1>10. Pending'
    <2>1. PICK p \in Phones : p = job.phone
      BY <1>1
    <2>2. p \in zaps => Went(p, {"lag", "post", "crash"})'
      <3>1. p \in zaps => Upset(p, "lag")
        BY <2>1 DEF Settle, SettleOver
      <3> QED
        BY <3>1, UpsetFields DEF Went, Kinds
    <2> QED
      BY <1>1, <1>2, <1>4, <2>1, <2>2, PendingStays
  <1>11. EndedServed'
    <2>1. PICK p \in Phones, n \in Int : p = job.phone /\ n = job.now
      BY <1>1
    <2>2. Served(p, n - Cooldown)
      BY <1>1, <2>1, ServedBefore, Bounds DEF Settling
    <2>3. Served(p, n - Cooldown)'
      BY <1>2, <1>4, <2>2, ServedStays, Bounds
    <2> QED
      BY <1>2, <1>4, <1>5, <2>1, <2>3, EndedStay
  <1> QED
    BY <1>6, <1>7, <1>8, <1>9, <1>10, <1>11

\* The relay links the caller, or the caller has opted out.
LEMMA RelayKeeps == Inv /\ TypeOK' /\ Relay => Inv'
  <1> SUFFICES ASSUME Inv, TypeOK', Relay PROVE Inv'
    OBVIOUS
  <1> USE DEF Inv
  <1>0. At("relay")
    BY DEF Relay
  <1>1. /\ job \in JobRow /\ job # None /\ job.pc = "relay"
        /\ job.phone \in Phones /\ job.now \in Int /\ job.now >= 0 /\ job.now <= clock
        /\ clock \in Int
        /\ \A p, S : Mine(p, S) <=> p = job.phone /\ "relay" \in S
    BY <1>0, JobAt
  <1>2. /\ UNCHANGED <<method, clock, optedOut, ledger, member, zaps, fired, twice, strays, hit>>
        /\ Link({job.phone} \ optedOut)
    BY DEF Relay, tea, env
  <1>3. Grown /\ clock <= clock' /\ \A p \in Phones : linked'[p] = linked[p] \/ linked'[p] = clock
    BY <1>1, <1>2, LaneGrown
  <1>4. job' = None /\ ended' = ended \cup {<<job.phone, job.now>>}
    BY <1>1, FinishFields DEF Relay
  <1>5. Paths' /\ Checked' /\ Grouped' /\ Settling'
    BY <1>4, NoJob
  <1>6. Timely' /\ Strays' /\ Repeats'
    BY <1>1, <1>2, <1>3, <1>4, TimesStay, StraysStay, RepeatsStay
  <1>7. (\A p \in Phones : Recorded(p)') /\ Pending'
    BY <1>1, <1>2, <1>3, RecordedStays, PendingStays
  <1>8. PICK p \in Phones, n \in Int, c \in Int : p = job.phone /\ n = job.now /\ c = clock
    BY <1>1
  <1>9. \A t \in Int : t <= c => Served(p, t)'
    <2>1. p \notin optedOut => linked'[p] = c
      BY <1>2, <1>8, LinkFields
    <2> QED
      BY <1>2, <1>8, <2>1 DEF Served
  <1>10. EndedServed'
    BY <1>1, <1>2, <1>3, <1>4, <1>8, <1>9, EndedStay, Bounds
  <1>11. LedgerServed'
    <2>1. \A e \in ledger : e[2] \in Int /\ e[2] <= clock
      BY Bounds DEF TypeOK, Timely
    <2> QED
      BY <1>1, <1>2, <1>3, <1>8, <1>9, <2>1, RowsStay
  <1> QED
    BY <1>5, <1>6, <1>7, <1>10, <1>11

\* A process that dies leaves its caller's upset behind it.
LEMMA CrashKeeps == Inv /\ TypeOK' /\ Crash => Inv'
  <1> SUFFICES ASSUME Inv, TypeOK', Crash PROVE Inv'
    OBVIOUS
  <1> USE DEF Inv
  <1>1. job # None /\ job \in JobRow
    BY JobTyped DEF Crash
  <1>2. /\ job.phone \in Phones /\ job.now \in Int /\ job.now <= clock
        /\ \A p, S : Mine(p, S) => p = job.phone
    BY <1>1, Bounds DEF JobRow, Paths, Mine
  <1>3. UNCHANGED <<method, clock, optedOut, ledger, member, zaps, linked, fired, twice, strays>>
    BY DEF Crash, tea, env
  <1>4. "crash" \in hit'[job.phone] /\ \A q \in Phones : hit[q] \subseteq hit'[q]
    BY <1>2, UpsetFields DEF Crash, Kinds
  <1>5. Grown /\ clock <= clock' /\ \A p \in Phones : linked'[p] = linked[p] \/ linked'[p] = clock
    BY <1>3, <1>4, LaneGrown
  <1>6. job' = None /\ (ended' = ended \/ ended' = ended \cup {<<job.phone, job.now>>})
    BY <1>1, FinishFields DEF Crash
  <1>7. Paths' /\ Checked' /\ Grouped' /\ Settling'
    BY <1>6, NoJob
  <1>8. Timely' /\ Strays' /\ Repeats'
    BY <1>2, <1>3, <1>5, <1>6, TimesStay, StraysStay, RepeatsStay
  <1>9. PICK p \in Phones : p = job.phone
    BY <1>2
  <1>10. (\A t : Served(p, t)') /\ Went(p, {"lag", "post", "crash"})'
    BY <1>4, <1>9 DEF Served, Went
  <1>11. EndedServed' /\ LedgerServed'
    <2>1. EndedServed'
      BY <1>3, <1>5, <1>6, <1>9, <1>10, EndedStay
    <2>2. LedgerServed'
      BY <1>2, <1>3, <1>5, <1>9, <1>10, RowsStay
    <2> QED
      BY <2>1, <2>2
  <1>12. Pending'
    BY <1>2, <1>3, <1>5, <1>9, <1>10, PendingStays
  <1>13. \A q \in Phones : Recorded(q)'
    <2>1. Mine(p, {"record"}) => Recorded(p)'
      BY <1>3, <1>4, <1>9 DEF Recorded, Mine, Paths, Went
    <2> QED
      BY <1>2, <1>3, <1>5, <1>9, <2>1, RecordedStays
  <1> QED
    BY <1>7, <1>8, <1>11, <1>12, <1>13

--------------------------------------------------------------------------------
LEMMA InvStarts == Init => Inv
  <1> SUFFICES ASSUME Init PROVE Inv
    OBVIOUS
  <1>1. TypeOK
    <2>1. /\ clock \in 0..MaxTime /\ upsets \in 0..MaxUpsets /\ edits \in 0..MaxZillow
          /\ linked \in [Phones -> Never..MaxTime] /\ fired \in [Phones -> Never..MaxTime]
      BY Bounds DEF Init, Never
    <2>2. queue \in Seq(Waiting)
      BY DEF Init
    <2> QED
      BY <2>1, <2>2 DEF Init, TypeOK
  <1>2. Timely
    BY Bounds DEF Init, Timely, Never
  <1>3. (\A p \in Phones : Recorded(p)) /\ Repeats /\ Pending /\ Strays /\ LedgerServed /\ EndedServed
    BY DEF Init, Recorded, Repeats, Pending, Strays, LedgerServed, EndedServed
  <1>4. Paths /\ Checked /\ Grouped /\ Settling
    BY DEF Init, Paths, Checked, Grouped, Settling
  <1> QED
    BY <1>1, <1>2, <1>3, <1>4 DEF Inv

LEMMA InvIsKept == Inv /\ [Next]_vars => Inv'
  <1> SUFFICES ASSUME Inv, [Next]_vars PROVE Inv'
    OBVIOUS
  <1>1. TypeOK'
    BY TypesKept DEF Inv
  <1> QED
    BY <1>1, TickKeeps, NeighboursKeep, TakeKeeps, CheckKeeps, BroadcastKeeps, RecordKeeps, EditKeeps,
       ClaimKeeps, PostFormKeeps, ZapKeeps, SettleKeeps, RelayKeeps, CrashKeeps DEF Next

LEMMA Invariance == Spec => []Inv
  BY InvStarts, InvIsKept, PTL DEF Spec

\* The relay's state stays what its code can write (individual-relay.ts).
THEOREM Typing == Spec => []TypeOK
  <1>1. Inv => TypeOK
    BY DEF Inv
  <1> QED
    BY <1>1, Invariance, PTL

\* A second send to a caller within the cooldown is accepted only on the API
\* path, after a first one that was not recorded: firedRecently reads what
\* recordFire and claimFire wrote, and the claim precedes the form's post.
THEOREM NoRepeats == Spec => []NoRepeatBroadcast
  <1>1. Inv => NoRepeatBroadcast
    BY DEF Inv, Repeats, Went, NoRepeatBroadcast
  <1> QED
    BY <1>1, Invariance, PTL

\* Every job that ends leaves its caller with a link, one on its way, an
\* opt-out or one of the five upsets, on every path through the worker.
THEOREM EveryCallerServed == Spec => []NobodyForgotten
  <1>1. Inv => NobodyForgotten
    <2> SUFFICES ASSUME Inv, NEW e \in ended
                 PROVE  \/ e[1] \in optedOut \/ e[1] \in zaps
                        \/ linked[e[1]] >= e[2] - Cooldown
                        \/ hit[e[1]] \cap {"read", "crash", "post", "absent", "lag"} # {}
      BY DEF NobodyForgotten
    <2> QED
      BY DEF Inv, EndedServed, Served, Went
  <1> QED
    BY <1>1, Invariance, PTL

\* A form post reaches no caller but its own while jobs wait for their Zap:
\* one worker edits the group, and the other lane's edits cannot add to it.
THEOREM OwnCallerOnly == Spec => []RightCaller
  <1>1. Inv => RightCaller
    BY DEF Inv, Strays, Went, RightCaller
  <1> QED
    BY <1>1, Invariance, PTL
=============================================================================
