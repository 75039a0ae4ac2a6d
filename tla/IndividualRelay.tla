---------------------------- MODULE IndividualRelay ----------------------------
(***************************************************************************)
(* The link for one caller by Text-Em-All: requests (a call's start or end *)
(* or its tool, a text, a question) are queued under one job id per phone  *)
(* and minute; one worker takes them in order, checks the opt-outs and the *)
(* cooldown, and sends by the direct API or by the form: re-point the      *)
(* group, claim a fire, post the form, wait for the Zap to message the     *)
(* group.  What does not fire falls back to the relay.                     *)
(*                                                                         *)
(*   queue, ids   the waiting jobs; the job ids BullMQ has seen            *)
(*   job          the job under way: phone, runs, the now it read, pc      *)
(*   ledger       TextEmAllFire rows: phone and time                       *)
(*   member       Text-Em-All's two groups, the callers' and Zillow's; a   *)
(*                person is in at most one, a second add is refused (422)  *)
(*   zaps         form responses the Zap has not handled yet               *)
(*                                                                         *)
(* Histories: linked (when a link last went out to a phone), fired (the    *)
(* now of the job that last had a send accepted), twice (phones with two   *)
(* within a cooldown), strays (phones reached by a fire for another one),  *)
(* hit (what went wrong, by phone), ended (jobs over), stopped.            *)
(***************************************************************************)
EXTENDS Integers, Sequences, FiniteSets

CONSTANTS Phones, None,
          Cooldown,      \* individual_cooldown_min, in clock ticks
          Cap,           \* monthly_fire_cap
          MaxTime,       \* bound: clock ticks
          MaxRequests,   \* bound: jobs ever queued
          MaxUpsets,     \* bound: faults
          MaxZillow      \* bound: edits of Zillow's group

ASSUME RelayBounds == {Cooldown, Cap, MaxTime, MaxRequests, MaxUpsets, MaxZillow} \subseteq Nat

VARIABLES method, clock, queue, ids, job, ledger, optedOut, member, zaps, edits,
          linked, fired, twice, strays, hit, ended, upsets

lane == <<queue, ids, job>>
tea  == <<member, zaps>>
env  == <<method, clock, optedOut, edits>>
past == <<linked, fired, twice, strays, hit, ended, upsets>>
vars == <<lane, tea, env, ledger, past>>

Never == 0 - Cooldown - 1
Kinds == {"refused", "lost", "record", "post", "lag", "crash", "absent", "read"}

Waiting == [phone : Phones, runs : 1..2]
JobRow ==
    [phone : Phones, runs : 1..2, now : 0..MaxTime,
     pc : {"check", "broadcast", "record", "edit", "claim", "fire", "settle", "relay"}]
ASSUME NoneIsNoJob == None \notin JobRow

TypeOK ==
    /\ method \in {"api", "form"} /\ clock \in 0..MaxTime
    /\ queue \in Seq(Waiting)
    /\ ids \subseteq Phones \X (0..MaxTime)
    /\ job \in JobRow \cup {None}
    /\ ledger \subseteq Phones \X (0..MaxTime)
    /\ member \in [{"callers", "zillow"} -> SUBSET Phones]
    /\ member["callers"] \cap member["zillow"] = {}
    /\ zaps \subseteq Phones /\ {optedOut, twice, strays} \subseteq SUBSET Phones
    /\ linked \in [Phones -> Never..MaxTime] /\ fired \in [Phones -> Never..MaxTime]
    /\ hit \in [Phones -> SUBSET Kinds]
    /\ ended \subseteq Phones \X (0..MaxTime)
    /\ upsets \in 0..MaxUpsets /\ edits \in 0..MaxZillow

Init ==
    /\ method \in {"api", "form"} /\ clock = 0
    /\ queue = <<>> /\ ids = {} /\ job = None
    /\ ledger = {} /\ optedOut = {} /\ zaps = {} /\ edits = 0
    /\ member \in {m \in [{"callers", "zillow"} -> SUBSET Phones] :
                     m["callers"] = {} /\ Cardinality(m["zillow"]) <= 1}
    /\ linked = [p \in Phones |-> Never] /\ fired = [p \in Phones |-> Never]
    /\ twice = {} /\ strays = {} /\ ended = {} /\ upsets = 0
    /\ hit = [p \in Phones |-> {}]

--------------------------------------------------------------------------------
At(pc) == job # None /\ job.pc = pc
Goto(pc) == job' = [job EXCEPT !.pc = pc]
Upset(p, kind) ==
    /\ upsets < MaxUpsets /\ upsets' = upsets + 1
    /\ hit' = [hit EXCEPT ![p] = @ \cup {kind}]
Finish == job' = None /\ ended' = ended \cup {<<job.phone, job.now>>}
Link(ps) == linked' = [p \in Phones |-> IF p \in ps THEN clock ELSE linked[p]]
Fire(p) ==
    /\ fired' = [fired EXCEPT ![p] = job.now]
    /\ twice' = IF fired[p] >= job.now - Cooldown THEN twice \cup {p} ELSE twice

\* The form has the response of the job under way.
Stored == zaps' = zaps \cup {job.phone} /\ Fire(job.phone)

\* Time and the lane's neighbours.  The record of a send follows at once.
Tick ==
    /\ clock < MaxTime /\ ~At("record")
    /\ clock' = clock + 1
    /\ UNCHANGED <<method, optedOut, edits, lane, tea, ledger, past>>

Stop(p) ==
    /\ p \notin optedOut
    /\ optedOut' = optedOut \cup {p}
    /\ UNCHANGED <<method, clock, edits, lane, tea, ledger, past>>

\* addJob with the id of the phone and the minute: BullMQ drops a known id.
Request(p) ==
    /\ <<p, clock>> \notin ids /\ Cardinality(ids) < MaxRequests
    /\ ids' = ids \cup {<<p, clock>>}
    /\ queue' = Append(queue, [phone |-> p, runs |-> 1])
    /\ UNCHANGED <<job, tea, env, ledger, past>>

Take ==
    /\ job = None /\ queue # <<>>
    /\ job' = [phone |-> Head(queue).phone, runs |-> Head(queue).runs,
               now |-> clock, pc |-> "check"]
    /\ queue' = Tail(queue)
    /\ UNCHANGED <<ids, tea, env, ledger, past>>

\* Mutant: the row is looked for after the cooldown instead of within it.
FiredRecently_Older(p, now) == \E t \in 0..MaxTime : <<p, t>> \in ledger /\ t < now - Cooldown

FiredRecently(p, now) == \E t \in 0..MaxTime : <<p, t>> \in ledger /\ t >= now - Cooldown

\* The opt-out, then the cooldown, then the way to send; a read that throws
\* ends the job, which the worker logs.
Check ==
    /\ At("check")
    /\ \/ /\ job.phone \in optedOut \/ FiredRecently(job.phone, job.now)
          /\ Finish /\ UNCHANGED <<hit, upsets>>
       \/ /\ job.phone \notin optedOut /\ ~FiredRecently(job.phone, job.now)
          /\ Goto(IF method = "api" THEN "broadcast" ELSE "edit")
          /\ UNCHANGED <<hit, upsets, ended>>
       \/ Upset(job.phone, "read") /\ Finish
    /\ UNCHANGED <<queue, ids, tea, env, ledger, linked, fired, twice, strays>>

--------------------------------------------------------------------------------
\* sendBroadcastViaApi under the GUI lock: sent and reported; refused, with
\* nothing sent; or sent, with the reply lost (a timeout of osascript).
Broadcast ==
    /\ At("broadcast")
    /\ \/ Goto("record") /\ Link({job.phone}) /\ Fire(job.phone) /\ UNCHANGED <<hit, upsets>>
       \/ Goto("relay") /\ Upset(job.phone, "refused") /\ UNCHANGED <<linked, fired, twice>>
       \/ Goto("relay") /\ Upset(job.phone, "lost") /\ Link({job.phone}) /\ Fire(job.phone)
    /\ UNCHANGED <<queue, ids, tea, env, ledger, strays, ended>>

\* recordFire; its failure is swallowed.
Record ==
    /\ At("record")
    /\ Finish
    /\ \/ ledger' = ledger \cup {<<job.phone, clock>>} /\ UNCHANGED <<hit, upsets>>
       \/ Upset(job.phone, "record") /\ UNCHANGED ledger
    /\ UNCHANGED <<queue, ids, tea, env, linked, fired, twice, strays>>

--------------------------------------------------------------------------------
\* setGroupViaApi's script: clear the group, add each phone; a person of the
\* other group is refused and nobody looks at that.
SetGroup(g, ps) ==
    [member EXCEPT ![g] = {p \in ps : \A h \in DOMAIN member \ {g} : p \notin member[h]}]

\* The form path's group edit; an edit that fails may have cleared the group.
Edit ==
    /\ At("edit")
    /\ \/ /\ member' = SetGroup("callers", {job.phone})
          /\ Goto("claim")
          /\ hit' = IF job.phone \in member'["callers"] THEN hit
                    ELSE [hit EXCEPT ![job.phone] = @ \cup {"absent"}]
          /\ UNCHANGED upsets
       \/ /\ member' \in {member, SetGroup("callers", {})}
          /\ Upset(job.phone, "refused")
          /\ Goto("relay")
    /\ UNCHANGED <<queue, ids, zaps, env, ledger, linked, fired, twice, strays, ended>>

\* claimFire: count the month's rows and insert, in one transaction; the job
\* is the only caller.
Claim ==
    /\ At("claim")
    /\ IF Cardinality(ledger) < Cap
       THEN Goto("fire") /\ ledger' = ledger \cup {<<job.phone, clock>>}
       ELSE Goto("relay") /\ UNCHANGED ledger
    /\ UNCHANGED <<queue, ids, tea, env, past>>

\* fireIndividualTrigger: posted; disarmed meanwhile; answered with an error,
\* which counts as fired; or the fetch throws, with or without the response
\* stored, and so does the job.
PostForm ==
    /\ At("fire")
    /\ \/ Goto("settle") /\ Stored /\ UNCHANGED <<hit, upsets, ended>>
       \/ Goto("relay") /\ Upset(job.phone, "refused") /\ UNCHANGED <<zaps, fired, twice, ended>>
       \/ Goto("settle") /\ Upset(job.phone, "post") /\ UNCHANGED <<zaps, fired, twice, ended>>
       \/ /\ Finish /\ Upset(job.phone, "post")
          /\ \/ Stored
             \/ UNCHANGED <<zaps, fired, twice>>
    /\ UNCHANGED <<queue, ids, member, env, ledger, linked, strays>>

\* The Zap messages whoever is in the group now.
Zap(p) ==
    /\ p \in zaps
    /\ zaps' = zaps \ {p}
    /\ Link(member["callers"])
    /\ strays' = strays \cup (member["callers"] \ {p})
    /\ UNCHANGED <<lane, member, env, ledger, fired, twice, hit, ended, upsets>>

\* Mutant: the next job starts as soon as the form is posted.
SettleOver_AtOnce == TRUE

\* The settle time is longer than an instant Zap takes.
SettleOver == job.phone \notin zaps

Settle ==
    /\ At("settle")
    /\ Finish
    /\ \/ SettleOver /\ UNCHANGED <<hit, upsets>>
       \/ ~SettleOver /\ Upset(job.phone, "lag")
    /\ UNCHANGED <<queue, ids, tea, env, ledger, linked, fired, twice, strays>>

\* Mutant: a fire that was refused is not made up for.
Relay_Silent ==
    /\ At("relay")
    /\ Finish
    /\ UNCHANGED <<queue, ids, tea, env, ledger, linked, fired, twice, strays, hit, upsets>>

\* doRelay: the relay has no cooldown for a caller's link; a capped text is
\* deferred and goes out with the sweep.  A caller who opted out gets none.
Relay ==
    /\ At("relay")
    /\ Finish
    /\ Link({job.phone} \ optedOut)
    /\ UNCHANGED <<queue, ids, tea, env, ledger, fired, twice, strays, hit, upsets>>

--------------------------------------------------------------------------------
\* The Zillow lane's form path re-points its own group.
ZillowEdit(ps) ==
    /\ edits < MaxZillow
    /\ edits' = edits + 1
    /\ member' = SetGroup("zillow", ps)
    /\ UNCHANGED <<method, clock, optedOut, lane, zaps, ledger, past>>

\* The process dies: BullMQ hands a stalled job out once more.
Crash ==
    /\ job # None
    /\ Upset(job.phone, "crash")
    /\ IF job.runs = 1
       THEN /\ queue' = <<[phone |-> job.phone, runs |-> 2]>> \o queue
            /\ job' = None /\ UNCHANGED ended
       ELSE Finish /\ UNCHANGED queue
    /\ UNCHANGED <<ids, tea, env, ledger, linked, fired, twice, strays>>

Next ==
    \/ Tick
    \/ \E p \in Phones : Stop(p) \/ Request(p) \/ Zap(p)
    \/ Take \/ Check
    \/ Broadcast \/ Record
    \/ Edit \/ Claim \/ PostForm \/ Settle
    \/ Relay
    \/ \E ps \in SUBSET Phones : ZillowEdit(ps)
    \/ Crash

Spec == Init /\ [][Next]_vars

--------------------------------------------------------------------------------
\* "one individual delivery per phone per cooldown window"
\* (individual-relay.ts:95): two sends for a phone are accepted within one only
\* on the API path, when the first was not recorded: its reply or its record
\* was lost or the process died.  The form path claims first and never does.
NoRepeatBroadcast == \A p \in twice :
    method = "api" /\ hit[p] \cap {"lost", "record", "crash"} # {}

\* "the caller always gets exactly one link" (individual-relay.ts:67): a job
\* that is over leaves its caller with a link sent within the cooldown or on
\* its way, unless the caller opted out or one of five things happened: a read
\* threw, the process died, the form's post failed, the group edit left the
\* caller out, or the Zap came late.
NobodyForgotten == \A e \in ended :
    \/ e[1] \in optedOut \/ e[1] \in zaps
    \/ linked[e[1]] >= e[2] - Cooldown
    \/ hit[e[1]] \cap {"read", "crash", "post", "absent", "lag"} # {}

\* "concurrency=1 serializes the per-call group edits"
\* (jobs/individual-relay.ts:6): a form post reaches its own caller only,
\* whatever the Zillow lane does to its group, unless a job ended before its
\* Zap came.
RightCaller ==
    strays # {} => \E p \in Phones : hit[p] \cap {"lag", "post", "crash"} # {}
================================================================================
