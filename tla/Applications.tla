----------------------------- MODULE Applications -----------------------------
(***************************************************************************)
(* The rental applications of one property, and everybody who writes them: *)
(* AI conversations by voice and by SMS, the public form of the tenant     *)
(* site, the survey form behind a texted link, the landlord's dashboard,   *)
(* and the deletion of the property.  Only the survey's submission runs in *)
(* a transaction; the other handlers interleave between statements.        *)
(*                                                                         *)
(*   property   "here" or "gone";  asked: it has its question rows         *)
(*   app        the Application rows, by id, in the order of creation      *)
(*   invite     the SurveyInvite rows, likewise                            *)
(*   chat       the conversations, each with the application it holds      *)
(*   form       submissions of either form under way                       *)
(*   desk       dashboard requests under way                               *)
(*   fwd        per application: owner summaries being sent, deferred in   *)
(*              the relay ledger and told; "marked" is forwardedAt         *)
(*   cast       who takes part in the behaviour                            *)
(*   upsets     deaths, expiries, deferrals and deletions so far           *)
(*                                                                         *)
(* Histories: "late" holds conversations and requests that held an         *)
(* application, not yet decided, when somebody else decided it; "excused"  *)
(* the applications that may be completed without their answers, with a    *)
(* reason known to the model; "met" the applicants two of whose            *)
(* submissions overlapped; "burnt" the invites a dead submission claimed;  *)
(* "unsure" the applications whose summary was deferred, overlapped or     *)
(* lost.                                                                   *)
(***************************************************************************)
EXTENDS Naturals, FiniteSets, FiniteSetsExt

CONSTANTS Applicants, Chats, Forms, Desks, Null,
          Columns,      \* answers kept in a column of their own
          Customs,      \* answers kept in the one customResponses object
          Email,        \* the column that holds the address
          Required,     \* what the property's questions demand
          MaxApps,      \* bound: Application rows
          MaxInvites,   \* bound: SurveyInvite rows
          MaxForwards,  \* bound: owner summaries begun
          MaxUpsets,    \* bound: deaths, expiries, deferrals, deletions
          Casts         \* bound: the sets of actors that meet in one behaviour

ASSUME ApplicationsBounds ==
    /\ MaxApps \in Nat /\ MaxInvites \in Nat /\ MaxForwards \in Nat
    /\ MaxUpsets \in Nat
ASSUME ApplicationsAnswers ==
    /\ Email \in Columns /\ Required \subseteq Columns \cup Customs
    /\ Columns \cap Customs = {}
ASSUME ApplicationsActors == Chats \cap Desks = {}

VARIABLES property, asked, app, invite, chat, form, desk, fwd, upsets,
          cast, late, excused, met, burnt, unsure

rows    == <<property, asked, app, invite>>
actors  == <<chat, form, desk>>
history == <<cast, late, excused, met, burnt, unsure>>
applicationsVars == <<rows, actors, fwd, upsets, history>>

Answers   == Columns \cup Customs
AppIds    == 1..MaxApps
InviteIds == 1..MaxInvites
Decided   == {"reviewed", "rejected"}

NoChat == [pc |-> "off", kind |-> "voice", who |-> Null, app |-> Null,
           field |-> Null, seen |-> {}]
NoForm == [pc |-> "idle", who |-> Null, invite |-> Null]
NoDesk == [pc |-> "idle", app |-> Null, to |-> "none"]
Quiet  == [sending |-> 0, deferred |-> 0, told |-> 0, marked |-> FALSE]

AppRow    == [who : Applicants, by : {"chat", "apply", "survey"}, via : InviteIds \cup {Null},
              status : {"in_progress", "completed"} \cup Decided, ans : SUBSET Answers,
              age : {"days", "weeks", "months"}]
InviteRow == [who : Applicants, state : {"open", "expired", "used", "deleted"}]

\* Null is no row's key and no row.
ASSUME NullIsNoApplication == Null \notin Nat \cup AppRow \cup InviteRow

ApplicationsInit ==
    /\ property = "here"
    /\ asked = TRUE
    /\ app = [a \in AppIds |-> Null]
    /\ invite = [n \in InviteIds |-> Null]
    /\ chat = [c \in Chats |-> NoChat]
    /\ form = [f \in Forms |-> NoForm]
    /\ desk = [d \in Desks |-> NoDesk]
    /\ fwd = [a \in AppIds |-> Quiet]
    /\ upsets = 0
    /\ cast \in Casts
    /\ late = {} /\ excused = {} /\ met = {}
    /\ burnt = {} /\ unsure = {}

--------------------------------------------------------------------------------
Apps    == {a \in AppIds : app[a] # Null}
Invites == {n \in InviteIds : invite[n] # Null}
NextApp == Cardinality(Apps) + 1
StatusOf(a) == app[a].status

Holds(x, a) ==
    \/ x \in Chats /\ chat[x].app = a
    \/ x \in Desks /\ desk[x].pc = "write" /\ desk[x].app = a
Holders(a) == {x \in Chats \cup Desks : Holds(x, a)}

SetChat(c, record) == chat' = [chat EXCEPT ![c] = record]
SetForm(f, record) == form' = [form EXCEPT ![f] = record]
SetDesk(d, record) == desk' = [desk EXCEPT ![d] = record]

NewApplication(who, by, status, ans) ==
    [who |-> who, by |-> by, via |-> Null, status |-> status, ans |-> ans, age |-> "days"]

(* The web and survey forms carry an address; a conversation must ask for it. *)
HasEmail(a) == app[a].by # "chat" \/ Email \in app[a].ans

--------------------------------------------------------------------------------
(* forwardSurveySummary: a marked application is not sent again.  The task is *)
(* not awaited; reading the mark later than the call starts it can only       *)
(* suppress a summary, so the read is part of the step that starts it.        *)
Summaries == MapThenSumSet(LAMBDA a : fwd[a].sending + fwd[a].deferred + fwd[a].told, AppIds)

\* Mutant: forwardedAt is not looked at.
StartForward_Always(a) ==
    /\ fwd' = [fwd EXCEPT ![a].sending = @ + 1]
    /\ unsure' = IF fwd[a].sending > 0 THEN unsure \cup {a} ELSE unsure

StartForward(a) ==
    IF fwd[a].marked
    THEN UNCHANGED <<fwd, unsure>>
    ELSE /\ fwd' = [fwd EXCEPT ![a].sending = @ + 1]
         /\ unsure' = IF fwd[a].sending > 0 THEN unsure \cup {a} ELSE unsure

(* The relay sends at once, or leaves a row for the sweep; only the former    *)
(* sets forwardedAt.                                                          *)
ForwardSent(a) ==
    /\ fwd[a].sending > 0
    /\ fwd' = [fwd EXCEPT ![a].sending = @ - 1, ![a].told = @ + 1, ![a].marked = TRUE]
    /\ UNCHANGED <<rows, actors, upsets, history>>

ForwardDeferred(a) ==
    /\ fwd[a].sending > 0 /\ upsets < MaxUpsets
    /\ fwd' = [fwd EXCEPT ![a].sending = @ - 1, ![a].deferred = @ + 1]
    /\ unsure' = unsure \cup {a}
    /\ upsets' = upsets + 1
    /\ UNCHANGED <<rows, actors, late, excused, met, burnt, cast>>

SweepSends(a) ==
    /\ fwd[a].deferred > 0
    /\ fwd' = [fwd EXCEPT ![a].deferred = @ - 1, ![a].told = @ + 1]
    /\ UNCHANGED <<rows, actors, upsets, history>>

(* The server stops between the text and its mark.                            *)
ForwardDies(a) ==
    /\ fwd[a].sending > 0 /\ upsets < MaxUpsets
    /\ \E told \in 0..1 : fwd' = [fwd EXCEPT ![a].sending = @ - 1, ![a].told = @ + told]
    /\ unsure' = unsure \cup {a}
    /\ upsets' = upsets + 1
    /\ UNCHANGED <<rows, actors, late, excused, met, burnt, cast>>

--------------------------------------------------------------------------------
(* A call connects or an SMS arrives; either seeds the standard questions of  *)
(* a property that has none.  An SMS conversation keeps its application in    *)
(* its row until the hourly purge; a call keeps it until it ends.             *)
OpenChat(c, kind, p) ==
    /\ chat[c].pc = "off" /\ property = "here"
    /\ asked' = TRUE
    /\ SetChat(c, [NoChat EXCEPT !.pc = "talking", !.kind = kind, !.who = p])
    /\ UNCHANGED <<property, app, invite, form, desk, fwd, upsets, history>>

NextText(c) ==
    /\ chat[c].pc = "talking" /\ chat[c].kind = "sms"
    /\ property = "here" /\ ~asked
    /\ asked' = TRUE
    /\ UNCHANGED <<property, app, invite, actors, fwd, upsets, history>>

CloseChat(c) ==
    /\ chat[c].pc = "talking"
    /\ SetChat(c, NoChat)
    /\ late' = late \ {c}
    /\ UNCHANGED <<rows, form, desk, fwd, upsets, cast, excused, met, burnt, unsure>>

\* Mutant: an application found by phone is resumed whatever its status.
Resumable_AnyStatus(p) ==
    {a \in Apps : app[a].by = "chat" /\ app[a].who = p /\ app[a].age = "days"}

(* findOrCreateApplication: the applicant's latest open application of the    *)
(* last APPLICATION_RESUME_DAYS, else a new row.                              *)
Resumable(p) ==
    {a \in Apps : app[a].by = "chat" /\ app[a].who = p /\ StatusOf(a) = "in_progress"
                  /\ app[a].age = "days"}

StartApplication(c) ==
    LET p == chat[c].who
    IN  /\ chat[c].pc = "talking"
        /\ \/ /\ Resumable(p) # {}
              /\ SetChat(c, [chat[c] EXCEPT !.app = Max(Resumable(p))])
           \/ /\ Resumable(p) = {}
              /\ SetChat(c, [chat[c] EXCEPT !.pc = "starting"])
        /\ late' = late \ {c}
        /\ UNCHANGED <<rows, form, desk, fwd, upsets, cast, excused, met, burnt, unsure>>

(* application.create: the foreign key refuses it once the property is gone.  *)
CreateApplication(c) ==
    /\ chat[c].pc = "starting"
    /\ \/ /\ property = "gone"
          /\ SetChat(c, [chat[c] EXCEPT !.pc = "talking"])
          /\ UNCHANGED app
       \/ /\ property = "here" /\ NextApp \in AppIds
          /\ app' = [app EXCEPT ![NextApp] =
                NewApplication(chat[c].who, "chat", "in_progress", {})]
          /\ SetChat(c, [chat[c] EXCEPT !.pc = "talking", !.app = NextApp])
    /\ UNCHANGED <<property, asked, invite, form, desk, fwd, upsets, history>>

Saving(a) == {c \in Chats : chat[c].pc = "saving" /\ chat[c].app = a}

(* saveApplicationField: a column is one update; a custom answer is merged    *)
(* into the object read before it.                                            *)
SaveColumn(c, field) ==
    LET a == chat[c].app
    IN  /\ chat[c].pc = "talking" /\ a # Null
        /\ app' = [app EXCEPT ![a].ans = @ \cup {field}]
        /\ UNCHANGED <<property, asked, invite, actors, fwd, upsets, history>>

ReadCustoms(c, field) ==
    LET a == chat[c].app
    IN  /\ chat[c].pc = "talking" /\ a # Null
        /\ SetChat(c, [chat[c] EXCEPT !.pc = "saving", !.field = field,
                                      !.seen = app[a].ans \cap Customs])
        /\ excused' = IF Saving(a) # {} THEN excused \cup {a} ELSE excused
        /\ UNCHANGED <<rows, form, desk, fwd, upsets, late, met, burnt, unsure, cast>>

WriteCustoms(c) ==
    LET a == chat[c].app
    IN  /\ chat[c].pc = "saving"
        /\ app' = [app EXCEPT ![a].ans = (@ \cap Columns) \cup chat[c].seen
                                             \cup {chat[c].field}]
        /\ SetChat(c, [chat[c] EXCEPT !.pc = "talking", !.field = Null, !.seen = {}])
        /\ UNCHANGED <<property, asked, invite, form, desk, fwd, upsets, history>>

\* Mutant: the custom answers are not looked at.
Complete_ColumnsOnly(a) == asked => Required \cap Columns \subseteq app[a].ans

(* completeApplication: the required answers are looked at, then the row is   *)
(* written without another look at its status.                                *)
Complete(a) == asked => Required \subseteq app[a].ans

CheckAnswers(c) ==
    LET a == chat[c].app
    IN  /\ chat[c].pc = "talking" /\ a # Null
        /\ Complete(a)
        /\ SetChat(c, [chat[c] EXCEPT !.pc = "completing"])
        /\ excused' = IF asked THEN excused ELSE excused \cup {a}
        /\ UNCHANGED <<rows, form, desk, fwd, upsets, late, met, burnt, unsure, cast>>

(* A voice call forwards the summary whatever completeApplication answered.   *)
Refused(c) ==
    LET a == chat[c].app
    IN  /\ chat[c].pc = "talking" /\ a # Null
        /\ ~Complete(a)
        /\ chat[c].kind = "voice" /\ Summaries < MaxForwards
        /\ StartForward(a)
        /\ UNCHANGED <<rows, actors, upsets, late, excused, met, burnt, cast>>

WriteCompleted(c) ==
    LET a == chat[c].app
    IN  /\ chat[c].pc = "completing"
        /\ app' = [app EXCEPT ![a].status = "completed", ![a].age = "days"]
        /\ SetChat(c, [chat[c] EXCEPT !.pc = "talking"])
        /\ IF chat[c].kind = "voice"
           THEN Summaries < MaxForwards /\ StartForward(a)
           ELSE UNCHANGED <<fwd, unsure>>
        /\ UNCHANGED <<property, asked, invite, form, desk, upsets, late, excused, met,
                       burnt, cast>>

ChatDies(c) ==
    /\ chat[c].pc \in {"starting", "saving", "completing"} /\ upsets < MaxUpsets
    /\ SetChat(c, NoChat)
    /\ late' = late \ {c}
    /\ upsets' = upsets + 1
    /\ UNCHANGED <<rows, form, desk, fwd, excused, met, burnt, unsure, cast>>

--------------------------------------------------------------------------------
(* createOrReuseSurveyInvite: an open invite is sent again, else one is       *)
(* minted.  The partial unique index lets a phone have one row without        *)
(* usedAt, and an expired one is such a row: the insert fails, and the text   *)
(* is not answered.                                                           *)
InvitesOf(p, state) == {n \in Invites : invite[n].who = p /\ invite[n].state = state}

TextForLink(p) ==
    /\ property = "here"
    /\ InvitesOf(p, "open") \cup InvitesOf(p, "expired") = {}
    /\ Cardinality(Invites) < MaxInvites
    /\ invite' = [invite EXCEPT ![Cardinality(Invites) + 1] = [who |-> p, state |-> "open"]]
    /\ UNCHANGED <<property, asked, app, actors, fwd, upsets, history>>

(* SURVEY_INVITE_EXPIRY_DAYS pass.                                            *)
InviteExpires(n) ==
    /\ invite[n].state = "open" /\ upsets < MaxUpsets
    /\ invite' = [invite EXCEPT ![n].state = "expired"]
    /\ upsets' = upsets + 1
    /\ UNCHANGED <<property, asked, app, actors, fwd, history>>

(* The 30 days after a completion, or the 7 after a conversation began, pass. *)
Age(a) ==
    /\ app[a].age = "days" /\ upsets < MaxUpsets
    /\ \E age \in {"weeks", "months"} : app' = [app EXCEPT ![a].age = age]
    /\ upsets' = upsets + 1
    /\ UNCHANGED <<property, asked, invite, actors, fwd, history>>

--------------------------------------------------------------------------------
(* POST /api/apply, with or without the token of an invite: the invite and    *)
(* the duplicates (same address, completed, not older than 30 days) are read, *)
(* the invite is claimed, the row is created.                                 *)
Duplicates(p) ==
    {a \in Apps : app[a].who = p /\ HasEmail(a) /\ StatusOf(a) = "completed"
                  /\ app[a].age # "months"}

InFlight(p) == {f \in Forms : form[f].pc \in {"claim", "create"} /\ form[f].who = p}

EnterForm(f, p, n) ==
    /\ form[f].pc = "idle"
    /\ SetForm(f, [pc |-> IF n = Null THEN "create" ELSE "claim", who |-> p, invite |-> n])
    /\ met' = IF InFlight(p) # {} THEN met \cup {p} ELSE met
    /\ UNCHANGED <<rows, chat, desk, fwd, upsets, late, excused, burnt, unsure, cast>>

Apply(f, p, n) ==
    /\ property = "here"
    /\ n # Null => n \in Invites /\ invite[n].state = "open"
    /\ Duplicates(p) = {}
    /\ EnterForm(f, p, n)

(* updateMany ... where usedAt is null: one of several submissions wins.      *)
ClaimInvite(f) ==
    LET n == form[f].invite
    IN  /\ form[f].pc = "claim"
        /\ \/ /\ invite[n].state \in {"used", "deleted"}
              /\ SetForm(f, NoForm)
              /\ UNCHANGED invite
           \/ /\ invite[n].state \in {"open", "expired"}
              /\ invite' = [invite EXCEPT ![n].state = "used"]
              /\ SetForm(f, [form[f] EXCEPT !.pc = "create"])
        /\ UNCHANGED <<property, asked, app, chat, desk, fwd, upsets, history>>

(* The row, created completed; the invite is linked to it.                    *)
CreateFromForm(f) ==
    /\ form[f].pc = "create"
    /\ \/ /\ property = "gone"
          /\ UNCHANGED app
       \/ /\ property = "here" /\ NextApp \in AppIds
          /\ app' = [app EXCEPT ![NextApp] =
                [NewApplication(form[f].who, "apply", "completed", {}) EXCEPT !.via = form[f].invite]]
    /\ SetForm(f, NoForm)
    /\ UNCHANGED <<property, asked, invite, chat, desk, fwd, upsets, history>>

FormDies(f) ==
    /\ form[f].pc # "idle" /\ upsets < MaxUpsets
    /\ burnt' = IF form[f].pc = "create" THEN burnt \cup {form[f].invite} ELSE burnt
    /\ SetForm(f, NoForm)
    /\ upsets' = upsets + 1
    /\ UNCHANGED <<rows, chat, desk, fwd, late, excused, met, unsure, cast>>

--------------------------------------------------------------------------------
(* POST /survey/:token: the invite is read; then one transaction claims it,   *)
(* looks for a recent survey of the same phone and creates the row.  A        *)
(* duplicate rolls the claim back.                                            *)
OpenSurvey(f, n) ==
    /\ form[f].pc = "idle" /\ n \in Invites /\ invite[n].state = "open"
    /\ SetForm(f, [pc |-> "submit", who |-> invite[n].who, invite |-> n])
    /\ UNCHANGED <<rows, chat, desk, fwd, upsets, history>>

RecentSurvey(p) ==
    {a \in Apps : app[a].via # Null /\ invite[app[a].via].who = p
                  /\ StatusOf(a) \in {"completed", "reviewed"} /\ app[a].age # "months"}

\* Mutant: the claim survives the duplicate's error.
SubmitSurvey_NoRollback(f) ==
    LET n == form[f].invite
        p == form[f].who
    IN  /\ form[f].pc = "submit"
        /\ SetForm(f, NoForm)
        /\ invite' = IF invite[n].state = "deleted" THEN invite
                     ELSE [invite EXCEPT ![n].state = "used"]
        /\ \/ /\ invite[n].state \in {"used", "deleted"} \/ RecentSurvey(p) # {}
              /\ UNCHANGED <<app, fwd, unsure>>
           \/ /\ invite[n].state \in {"open", "expired"} /\ RecentSurvey(p) = {}
              /\ NextApp \in AppIds /\ Summaries < MaxForwards
              /\ app' = [app EXCEPT ![NextApp] =
                    [NewApplication(p, "survey", "completed", {}) EXCEPT !.via = n]]
              /\ StartForward(NextApp)
        /\ UNCHANGED <<property, asked, chat, desk, upsets, late, excused, met, burnt, cast>>

SubmitSurvey(f) ==
    LET n == form[f].invite
        p == form[f].who
    IN  /\ form[f].pc = "submit"
        /\ SetForm(f, NoForm)
        /\ \/ /\ invite[n].state \in {"used", "deleted"} \/ RecentSurvey(p) # {}
              /\ UNCHANGED <<invite, app, fwd, unsure>>
           \/ /\ invite[n].state \in {"open", "expired"} /\ RecentSurvey(p) = {}
              /\ NextApp \in AppIds
              /\ invite' = [invite EXCEPT ![n].state = "used"]
              /\ app' = [app EXCEPT ![NextApp] =
                    [NewApplication(p, "survey", "completed", {}) EXCEPT !.via = n]]
              /\ StartForward(NextApp)
        /\ UNCHANGED <<property, asked, chat, desk, upsets, late, excused, met, burnt, cast>>

--------------------------------------------------------------------------------
(* PUT /api/applications/[id]: the status is read and compared with the       *)
(* table, and written by id in a later statement.                             *)
ALLOWED_TRANSITIONS ==
    [in_progress |-> {"completed"}, completed |-> Decided,
     reviewed |-> {"rejected"}, rejected |-> {"reviewed"}]

ReadStatus(d, a, to) ==
    /\ desk[d].pc = "idle" /\ a \in Apps
    /\ to \in ALLOWED_TRANSITIONS[StatusOf(a)]
    /\ SetDesk(d, [pc |-> "write", app |-> a, to |-> to])
    /\ UNCHANGED <<rows, chat, form, fwd, upsets, history>>

WriteStatus(d) ==
    LET a == desk[d].app
        undecided == StatusOf(a) \notin Decided
    IN  /\ desk[d].pc = "write"
        /\ app' = [app EXCEPT ![a].status = desk[d].to]
        /\ late' = (IF undecided /\ desk[d].to \in Decided THEN late \cup Holders(a)
                    ELSE late) \ {d}
        /\ excused' = IF desk[d].to = "completed" THEN excused \cup {a} ELSE excused
        /\ SetDesk(d, NoDesk)
        /\ UNCHANGED <<property, asked, invite, chat, form, fwd, upsets, met, burnt, unsure, cast>>

(* DELETE /api/properties/[id]: refused while an application is in progress;  *)
(* then the questions (and photos) go, then the property itself, which        *)
(* applications, units or leases prevent.                                     *)
DeleteProperty(d) ==
    /\ desk[d].pc = "idle" /\ property = "here"
    /\ \A a \in Apps : StatusOf(a) # "in_progress"
    /\ upsets < MaxUpsets
    /\ SetDesk(d, [NoDesk EXCEPT !.pc = "questions"])
    /\ upsets' = upsets + 1
    /\ UNCHANGED <<rows, chat, form, fwd, history>>

DeleteQuestions(d) ==
    /\ desk[d].pc = "questions"
    /\ asked' = FALSE
    /\ SetDesk(d, [NoDesk EXCEPT !.pc = "property"])
    /\ UNCHANGED <<property, app, invite, chat, form, fwd, upsets, history>>

DeleteRow(d) ==
    /\ desk[d].pc = "property"
    /\ \/ UNCHANGED <<property, invite, cast>>
       \/ /\ Apps = {}
          /\ property' = "gone"
          /\ invite' = [n \in InviteIds |->
                IF n \in Invites THEN [invite[n] EXCEPT !.state = "deleted"] ELSE Null]
    /\ SetDesk(d, NoDesk)
    /\ UNCHANGED <<asked, app, chat, form, fwd, upsets, history>>

DeskDies(d) ==
    /\ desk[d].pc # "idle" /\ upsets < MaxUpsets
    /\ SetDesk(d, NoDesk)
    /\ late' = late \ {d}
    /\ upsets' = upsets + 1
    /\ UNCHANGED <<rows, chat, form, fwd, excused, met, burnt, unsure, cast>>

--------------------------------------------------------------------------------
ChatStep(c) ==
    \/ \E p \in Applicants, kind \in {"voice", "sms"} : OpenChat(c, kind, p)
    \/ NextText(c) \/ CloseChat(c)
    \/ StartApplication(c) \/ CreateApplication(c)
    \/ \E field \in Columns : SaveColumn(c, field)
    \/ \E field \in Customs : ReadCustoms(c, field)
    \/ WriteCustoms(c) \/ CheckAnswers(c) \/ Refused(c) \/ WriteCompleted(c) \/ ChatDies(c)

FormStep(f) ==
    \/ \E p \in Applicants, n \in Invites \cup {Null} : Apply(f, p, n)
    \/ \E n \in Invites : OpenSurvey(f, n)
    \/ ClaimInvite(f) \/ CreateFromForm(f) \/ SubmitSurvey(f) \/ FormDies(f)

DeskStep(d) ==
    \/ \E a \in Apps, to \in Decided \cup {"completed"} : ReadStatus(d, a, to)
    \/ WriteStatus(d)
    \/ DeleteProperty(d) \/ DeleteQuestions(d) \/ DeleteRow(d) \/ DeskDies(d)

ForwardStep(a) ==
    ForwardSent(a) \/ ForwardDeferred(a) \/ SweepSends(a) \/ ForwardDies(a)

ApplicationsNext ==
    \/ \E c \in Chats \cap cast : ChatStep(c)
    \/ \E f \in Forms \cap cast : FormStep(f)
    \/ \E d \in Desks \cap cast : DeskStep(d)
    \/ \E a \in Apps : ForwardStep(a) \/ Age(a)
    \/ \E p \in Applicants \cap cast : TextForLink(p)
    \/ \E n \in Invites : InviteExpires(n)

ApplicationsSpec == ApplicationsInit /\ [][ApplicationsNext]_applicationsVars

--------------------------------------------------------------------------------
(* What a landlord has reviewed or rejected becomes undecided again only      *)
(* through a conversation or a request that already held the application when *)
(* it was decided: nobody starts to work on a decided application.            *)
DecidedStays ==
    [][\A a \in Apps : StatusOf(a) \in Decided /\ app'[a].status \notin Decided
         => \E x \in late : Holds(x, a)]_applicationsVars

(* A prospect applies once.  A survey link makes one application, through     *)
(* whichever of the two forms and however many submissions are in flight; and *)
(* two recent completed applications of one address through the public form   *)
(* come from submissions that overlapped.  A used link stands for an          *)
(* application, or for a submission that is about to create it or died after  *)
(* its claim: a refused duplicate keeps the link.                             *)
AppliedOnce ==
    /\ \A n \in Invites : Cardinality({a \in Apps : app[a].via = n}) <= 1
    /\ \A a, b \in Apps :
           (/\ a # b /\ app[a].who = app[b].who
            /\ \A x \in {a, b} : app[x].by = "apply" /\ StatusOf(x) = "completed"
                                 /\ app[x].age # "months")
           => app[a].who \in met
    /\ \A n \in Invites : invite[n].state = "used"
        => \/ \E a \in Apps : app[a].via = n
           \/ \E f \in Forms : form[f].invite = n /\ form[f].pc = "create"
           \/ n \in burnt

(* A conversation completes an application with every required answer on it,  *)
(* and the answers stay, unless two saves of it overlapped, the questions     *)
(* were stripped by a half-done deletion or the landlord completed it.        *)
CompletedIsFilled ==
    \A a \in Apps : app[a].by = "chat" /\ StatusOf(a) # "in_progress" /\ a \notin excused
        => Required \subseteq app[a].ans

(* The owner is told of an application twice only when a summary was          *)
(* deferred, died, or overlapped another.                                     *)
ForwardOnce == \A a \in AppIds : fwd[a].told > 1 => a \in unsure

================================================================================
