----------------------------- MODULE Navigation -----------------------------
(***************************************************************************)
(* What main.py tells about documents: navigation, navigation_failed and   *)
(* captcha_detected events.  Chrome's messages arrive in the order it sent *)
(* them, so an action is one thing Chrome does together with the handlers  *)
(* its message runs; commands reach Chrome later (enabled, trees, evals).  *)
(* A document stands for its request id; reported, failed and detected     *)
(* record what has been emitted, seen the responses there were to report.  *)
(***************************************************************************)
EXTENDS Naturals, Sequences

CONSTANTS Session, Doc, Kind,
          Url,          \* Url[d]: the address of document d
          Probes,       \* number of CAPTCHA_PROBE_DELAYS
          NoSession, NoDoc, NoUrl, Unknown

ASSUME NavigationAssumption ==
    /\ NoSession \notin Session /\ NoDoc \notin Doc /\ Unknown \notin Kind
    /\ DOMAIN Url = Doc /\ \A d \in Doc : Url[d] # NoUrl
    /\ Probes \in Nat \ {0}

VARIABLES
    \* main.py
    sessions,       \* keys of main.sessions
    mainKnown,      \* whether main_frame_id is set
    pending,        \* pending[s]: responses buffered until it is
    lastUrl,        \* last_url
    probeUrl,       \* captcha_probe_url
    reportedKinds,  \* captcha_reported
    networkRequests, \* keys of network_requests
    tasks,          \* probe_captcha tasks
    \* events
    reported,       \* reported[s]: documents of navigation events
    failed,         \* navigation_failed events
    detected,       \* captcha_detected events
    seen,           \* seen[s]: main-frame documents whose response we got
    \* Chrome
    used,           \* session ids given out
    enabled,        \* sessions whose Page.enable, Network.enable arrived
    trees,          \* sessions whose Page.getFrameTree is unanswered
    evals,          \* evals[s]: Runtime.evaluate commands unanswered
    doc,            \* doc[d]: its state, session and frame
    shown,          \* shown[s]: the main frame's document
    parsed,         \* sessions whose shown document has fired its event
    captcha         \* captcha[d]: the vendor on document d

sessVars == <<sessions, mainKnown, pending, lastUrl, probeUrl, reportedKinds>>
eventVars == <<reported, failed, detected, seen>>
commandVars == <<enabled, trees, evals>>
pageVars == <<doc, shown, parsed, captcha>>
vars == <<sessVars, networkRequests, tasks, eventVars, used, commandVars, pageVars>>

Idle == [state |-> "none", session |-> NoSession, frame |-> "main"]

Init == /\ sessions = {} /\ used = {} /\ enabled = {} /\ trees = {}
        /\ mainKnown = [s \in Session |-> FALSE]
        /\ pending = [s \in Session |-> <<>>]
        /\ lastUrl = [s \in Session |-> NoUrl]
        /\ probeUrl = [s \in Session |-> NoUrl]
        /\ reportedKinds = [s \in Session |-> {}]
        /\ networkRequests = {} /\ tasks = {}
        /\ reported = [s \in Session |-> <<>>]
        /\ failed = {}
        /\ detected = <<>>
        /\ seen = [s \in Session |-> <<>>]
        /\ evals = [s \in Session |-> 0]
        /\ doc = [d \in Doc |-> Idle]
        /\ shown = [s \in Session |-> NoDoc] /\ parsed = {}
        /\ captcha = [d \in Doc |-> Unknown]

IsMain(d) == doc[d].frame = "main"

-----------------------------------------------------------------------------
(* Tabs                                                                    *)

Attach(s) ==
    /\ s \notin used
    /\ used' = used \cup {s} /\ sessions' = sessions \cup {s}
    /\ trees' = trees \cup {s}
    /\ UNCHANGED <<mainKnown, pending, lastUrl, probeUrl, reportedKinds,
                   networkRequests, tasks, eventVars, enabled, evals, pageVars>>

Enable(s) ==
    /\ s \in sessions \ enabled
    /\ enabled' = enabled \cup {s}
    /\ UNCHANGED <<sessVars, networkRequests, tasks, eventVars, used, trees, evals,
                   pageVars>>

(* The sessions of S and what is scoped to them; their tabs load no more.  *)
KeepRequests(S) == UNCHANGED networkRequests                      \* mutant
DropRequests(S) ==
    networkRequests' = {d \in networkRequests : doc[d].session \notin S}

Forget(S) ==
    /\ sessions' = sessions \ S
    /\ mainKnown' = [s \in Session |-> s \notin S /\ mainKnown[s]]
    /\ pending' = [s \in Session |-> IF s \in S THEN <<>> ELSE pending[s]]
    /\ lastUrl' = [s \in Session |-> IF s \in S THEN NoUrl ELSE lastUrl[s]]
    /\ probeUrl' = [s \in Session |-> IF s \in S THEN NoUrl ELSE probeUrl[s]]
    /\ reportedKinds' = [s \in Session |-> IF s \in S THEN {} ELSE reportedKinds[s]]
    /\ DropRequests(S)
    /\ enabled' = enabled \ S /\ trees' = trees \ S
    /\ evals' = [s \in Session |-> IF s \in S THEN 0 ELSE evals[s]]
    /\ doc' = [d \in Doc |-> IF doc[d].session \in S
                             THEN [doc[d] EXCEPT !.state = "over"] ELSE doc[d]]
    /\ shown' = [s \in Session |-> IF s \in S THEN NoDoc ELSE shown[s]]
    /\ parsed' = parsed \ S
    /\ UNCHANGED <<tasks, eventVars, used, captcha>>

Detach(s) == s \in sessions /\ Forget({s})

(* The connection drops.                                                   *)
Drop == sessions # {} /\ Forget(sessions)

-----------------------------------------------------------------------------
(* navigation and navigation_failed                                        *)

(* flush_pending: only the main frame's responses are emitted.             *)
OnlyIn(D, q) ==
    LET kept[i \in 0..Len(q)] ==
            IF i = 0 THEN <<>>
            ELSE IF q[i] \in D THEN Append(kept[i - 1], q[i]) ELSE kept[i - 1]
    IN  kept[Len(q)]

MainDocs == {d \in Doc : IsMain(d)}

FlushAll(s) == pending[s]                                         \* mutant
Flushed(s) == OnlyIn(MainDocs, pending[s])

KnowMainFrame(s) ==
    /\ mainKnown' = [mainKnown EXCEPT ![s] = TRUE]
    /\ reported' = [reported EXCEPT ![s] = @ \o Flushed(s)]
    /\ lastUrl' = [lastUrl EXCEPT ![s] =
           IF Flushed(s) = <<>> THEN @ ELSE Url[Flushed(s)[Len(Flushed(s))]]]
    /\ pending' = [pending EXCEPT ![s] = <<>>]

(* The reply to Page.getFrameTree; an error tells no frame.                *)
FrameTree(s) ==
    /\ s \in trees \cap enabled
    /\ trees' = trees \ {s}
    /\ \/ KnowMainFrame(s)
       \/ UNCHANGED <<mainKnown, reported, lastUrl, pending>>
    /\ UNCHANGED <<sessions, probeUrl, reportedKinds, networkRequests, tasks, failed,
                   detected, seen, used, enabled, evals, pageVars>>

(* requestWillBeSent of a Document, if the network events are enabled.     *)
Request(d, s, f) ==
    /\ s \in sessions /\ doc[d].state = "none"
    /\ doc' = [doc EXCEPT ![d] = [state |-> "sent", session |-> s, frame |-> f]]
    /\ networkRequests' = networkRequests \cup (IF s \in enabled THEN {d} ELSE {})
    /\ UNCHANGED <<sessVars, tasks, eventVars, used, commandVars, shown, parsed, captcha>>

KeepAnswered(d) == UNCHANGED networkRequests                      \* mutant
Answered(d) == networkRequests' = networkRequests \ {d}

Response(d) ==
    /\ doc[d].state = "sent"
    /\ doc' = [doc EXCEPT ![d].state = "answered"]
    /\ LET s == doc[d].session
       IN  IF s \notin enabled
           THEN UNCHANGED <<networkRequests, reported, lastUrl, pending, seen>>
           ELSE /\ Answered(d)
                /\ seen' = [seen EXCEPT ![s] = IF IsMain(d) THEN Append(@, d) ELSE @]
                /\ IF ~mainKnown[s]
                   THEN /\ pending' = [pending EXCEPT ![s] = Append(@, d)]
                        /\ UNCHANGED <<reported, lastUrl>>
                   ELSE /\ IF IsMain(d)
                           THEN /\ reported' = [reported EXCEPT ![s] = Append(@, d)]
                                /\ lastUrl' = [lastUrl EXCEPT ![s] = Url[d]]
                           ELSE UNCHANGED <<reported, lastUrl>>
                        /\ UNCHANGED pending
    /\ UNCHANGED <<sessions, mainKnown, probeUrl, reportedKinds, tasks, failed, detected, used, commandVars, shown, parsed, captcha>>

(* loadingFailed, before or after the response; an aborted load is none.   *)
Fail(d, canceled) ==
    /\ doc[d].state \in {"sent", "answered"} /\ shown[doc[d].session] # d
    /\ doc' = [doc EXCEPT ![d].state = "failed"]
    /\ networkRequests' = networkRequests \ {d}
    /\ failed' = IF d \in networkRequests /\ ~canceled
                 THEN failed \cup {[doc |-> d, isMainFrame |->
                                       IsMain(d) /\ mainKnown[doc[d].session]]}
                 ELSE failed
    /\ UNCHANGED <<sessVars, tasks, reported, detected, seen, used, commandVars, shown,
                   parsed, captcha>>

(* The main frame commits d; frameNavigated tells its id.                  *)
Commit(d) ==
    /\ doc[d].state = "answered" /\ IsMain(d)
    /\ LET s == doc[d].session
       IN  /\ shown' = [shown EXCEPT ![s] = d] /\ parsed' = parsed \ {s}
           /\ doc' = [e \in Doc |-> IF e = shown[s] \/ e = d
                                    THEN [doc[e] EXCEPT !.state = "over"] ELSE doc[e]]
           /\ IF s \in enabled THEN KnowMainFrame(s)
                               ELSE UNCHANGED <<mainKnown, reported, lastUrl, pending>>
    /\ UNCHANGED <<sessions, probeUrl, reportedKinds, networkRequests, tasks, failed,
                   detected, seen, used, commandVars, captcha>>

-----------------------------------------------------------------------------
(* captcha_detected                                                        *)

(* domContentEventFired: schedule_captcha_probe.                           *)
DomContent(s) ==
    /\ s \in enabled \ parsed /\ shown[s] # NoDoc
    /\ parsed' = parsed \cup {s}
    /\ probeUrl' = [probeUrl EXCEPT ![s] = lastUrl[s]]
    /\ reportedKinds' = [reportedKinds EXCEPT ![s] = {}]
    /\ tasks' = tasks \cup {[session |-> s, url |-> lastUrl[s], left |-> Probes,
                             of |-> shown[s]]}
    /\ UNCHANGED <<sessions, mainKnown, pending, lastUrl, networkRequests, eventVars,
                   used, commandVars, doc, shown, captcha>>

(* probe_captcha after its next sleep: it bails or sends another probe.    *)
Wanted(t) == t.session \in sessions /\ probeUrl[t.session] = t.url

Probe(t) ==
    /\ t \in tasks
    /\ IF Wanted(t)
       THEN /\ evals' = [evals EXCEPT ![t.session] = @ + 1]
            /\ tasks' = (tasks \ {t}) \cup
                   (IF t.left = 1 THEN {} ELSE {[t EXCEPT !.left = @ - 1]})
       ELSE tasks' = tasks \ {t} /\ UNCHANGED evals
    /\ UNCHANGED <<sessVars, networkRequests, eventVars, used, enabled, trees, pageVars>>

(* The vendor's script arrives, possibly after the page was parsed.        *)
Inject(d, k) ==
    /\ \E s \in Session : shown[s] = d
    /\ captcha[d] = Unknown /\ captcha' = [captcha EXCEPT ![d] = k]
    /\ UNCHANGED <<sessVars, networkRequests, tasks, eventVars, used, commandVars, doc,
                   shown, parsed>>

(* Chrome runs the classifier on whatever it shows; handle_response.       *)
Forgetful(s, k) == UNCHANGED reportedKinds                        \* mutant
Remember(s, k) == reportedKinds' = [reportedKinds EXCEPT ![s] = @ \cup {k}]

Evaluate(s) ==
    /\ evals[s] > 0
    /\ evals' = [evals EXCEPT ![s] = @ - 1]
    /\ LET k == IF shown[s] = NoDoc THEN Unknown ELSE captcha[shown[s]]
       IN  IF k # Unknown /\ k \notin reportedKinds[s]
           THEN /\ Remember(s, k)
                /\ detected' = Append(detected, [doc |-> shown[s], kind |-> k,
                                                 early |-> s \notin parsed])
           ELSE UNCHANGED <<reportedKinds, detected>>
    /\ UNCHANGED <<sessions, mainKnown, pending, lastUrl, probeUrl, networkRequests,
                   tasks, reported, failed, seen, used, enabled, trees, pageVars>>

Next == \/ Drop
        \/ \E s \in Session : \/ Attach(s) \/ Enable(s) \/ Detach(s) \/ FrameTree(s)
                              \/ DomContent(s) \/ Evaluate(s)
                              \/ \E d \in Doc, f \in {"main", "sub"} : Request(d, s, f)
        \/ \E d \in Doc : \/ Response(d) \/ Commit(d)
                          \/ \E c \in BOOLEAN : Fail(d, c)
                          \/ \E k \in Kind : Inject(d, k)
        \/ \E t \in tasks : Probe(t)

Spec == Init /\ [][Next]_vars

-----------------------------------------------------------------------------
(* Every variable keeps its type, and commands are out only for open tabs. *)
TypeOK ==
    /\ sessions \subseteq used /\ used \subseteq Session
    /\ enabled \subseteq sessions /\ trees \subseteq sessions /\ parsed \subseteq sessions
    /\ mainKnown \in [Session -> BOOLEAN]
    /\ \A s \in Session : pending[s] \in Seq(Doc) /\ reported[s] \in Seq(Doc)
    /\ {lastUrl, probeUrl} \subseteq [Session -> {Url[d] : d \in Doc} \cup {NoUrl}]
    /\ reportedKinds \in [Session -> SUBSET Kind]
    /\ \A s \in Session : evals[s] \in IF s \in sessions THEN Nat ELSE {0}
    /\ networkRequests \subseteq Doc /\ \A t \in tasks : t.left \in 1..Probes
    /\ failed \subseteq [doc : Doc, isMainFrame : BOOLEAN]
    /\ detected \in Seq([doc : Doc, kind : Kind, early : BOOLEAN])

(* However the frame tree, the frame's own events and the responses are    *)
(* ordered, the navigations reported are the main frame's, each once and   *)
(* in order, none from an iframe; once the main frame is known nothing is  *)
(* held back (main.py:359-366, 377-384, 456-460, 499-516).                 *)
NavigationsExact ==
    \A s \in sessions : /\ reported[s] \o OnlyIn(MainDocs, pending[s]) = seen[s]
                        /\ mainKnown[s] => reported[s] = seen[s]

(* A document is reported as loaded or as failed, not as both (main.py:    *)
(* 496-507, 545-547).                                                      *)
LoadedOrFailed ==
    \A f \in failed, s \in Session :
        \A i \in DOMAIN reported[s] : reported[s][i] # f.doc

(* network_requests stays bounded: an entry is a load under way in an open *)
(* tab (main.py:91-94, 445-449, 607).                                      *)
RequestsScoped ==
    \A d \in networkRequests : doc[d].state = "sent" /\ doc[d].session \in sessions

(* A captcha that persists is reported once, however many probes run on    *)
(* the page and whichever document armed them: once by the probes answered *)
(* since the page's DOMContentLoaded, and at most once, early, by those of *)
(* an older page answered before it.  The arming forgets the early report, *)
(* so the two together can exceed the "at most once per navigation" of     *)
(* main.py:131-133 (289-294, 392-398).                                     *)
OncePerPage ==
    \A i, j \in DOMAIN detected : detected[i] = detected[j] => i = j

=============================================================================
