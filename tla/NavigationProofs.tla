-------------------------- MODULE NavigationProofs --------------------------
(***************************************************************************)
(* Theorems about Navigation, for any sessions, documents, vendors and     *)
(* number of probes.                                                       *)
(***************************************************************************)
EXTENDS Navigation, SequenceTheorems, WellFoundedInduction, TLAPS

(* What doc tells of a document.                                           *)
Loads == [state : {"none", "sent", "answered", "failed", "over"},
          session : Session \cup {NoSession}, frame : {"main", "sub"}]

(* The types the argument needs.                                           *)
Typed ==
    /\ sessions \subseteq Session /\ used \subseteq Session /\ sessions \subseteq used
    /\ enabled \subseteq sessions /\ networkRequests \subseteq Doc
    /\ doc \in [Doc -> Loads]
    /\ \A d \in Doc : doc[d].state # "none" => doc[d].session \in Session
    /\ shown \in [Session -> Doc \cup {NoDoc}]
    /\ reportedKinds \in [Session -> SUBSET Kind] /\ captcha \in [Doc -> Kind \cup {Unknown}]
    /\ detected \in Seq([doc : Doc, kind : Kind, early : BOOLEAN])

(* A request that is tracked went out in a session with Network enabled,   *)
(* and the document a tab shows is one of its own that has been committed. *)
Tracked ==
    /\ \A d \in networkRequests : doc[d].state = "sent" /\ doc[d].session \in enabled
    /\ \A s \in Session : shown[s] # NoDoc =>
           doc[shown[s]].state = "over" /\ doc[shown[s]].session = s

(* A captcha has been told of a committed document. While a tab shows that *)
(* document, what was told of it since the latest arming is remembered,    *)
(* and nothing can have been told late before the document's own arming.   *)
Noted(e) ==
    /\ doc[e.doc].state = "over"
    /\ \A s \in Session : shown[s] = e.doc =>
           /\ s \notin parsed => e.early
           /\ e.early = (s \notin parsed) => e.kind \in reportedKinds[s]

Remembered == \A i \in 1..Len(detected) : Noted(detected[i])

IInv == Typed /\ Tracked /\ Remembered /\ OncePerPage

LEMMA InitInv == Init => IInv
<1> SUFFICES ASSUME Init PROVE IInv
    OBVIOUS
<1>1. Typed
    BY DEF Init, Typed, Loads, Idle
<1>2. Tracked /\ Remembered /\ OncePerPage
    BY NavigationAssumption DEF Init, Tracked, Remembered, OncePerPage
<1> QED BY <1>1, <1>2 DEF IInv

LEMMA OverIsLoad ==
    ASSUME NEW r \in Loads PROVE [r EXCEPT !.state = "over"] \in Loads
BY DEF Loads

(* A step that tells of no captcha and turns no note false.                *)
LEMMA SameCaptchas ==
    ASSUME Remembered, OncePerPage, UNCHANGED detected,
           \A i \in 1..Len(detected) : Noted(detected[i]) => Noted(detected[i])'
    PROVE  Remembered' /\ OncePerPage'
BY DEF Remembered, OncePerPage

LEMMA DetectedOf == ASSUME Typed PROVE \A i \in 1..Len(detected) : detected[i].doc \in Doc
<1> SUFFICES ASSUME NEW i \in 1..Len(detected) PROVE detected[i].doc \in Doc
    OBVIOUS
<1> DEFINE Detections == [doc : Doc, kind : Kind, early : BOOLEAN]
<1>1. detected \in Seq(Detections)
    BY DEF Typed
<1>2. \A e \in Detections : e.doc \in Doc
    OBVIOUS
<1> HIDE DEF Detections
<1> QED BY <1>1, <1>2

LEMMA NotesKept ==
    ASSUME Remembered, OncePerPage,
           UNCHANGED <<detected, shown, parsed, reportedKinds>>,
           \A d \in Doc : doc[d].state = "over" => doc'[d].state = "over",
           \A i \in 1..Len(detected) : detected[i].doc \in Doc
    PROVE  Remembered' /\ OncePerPage'
BY SameCaptchas DEF Noted

(* A step that leaves the requests and documents alone.                    *)
LEMMA SameRequests ==
    ASSUME Tracked, UNCHANGED <<networkRequests, doc, shown>>, enabled \subseteq enabled'
    PROVE  Tracked'
BY DEF Tracked

(* Tabs open, are enabled, and go, one or all of them.                     *)
LEMMA OpenInv ==
    ASSUME IInv, NEW s \in Session, Attach(s) \/ Enable(s) PROVE IInv'
<1>1. /\ Typed /\ Tracked /\ Remembered /\ OncePerPage
      /\ UNCHANGED <<networkRequests, doc, shown, parsed, detected, reportedKinds, captcha>>
      /\ enabled \subseteq enabled'
    BY DEF IInv, Attach, Enable, eventVars, pageVars, sessVars
<1>2. Typed'
    BY <1>1 DEF Typed, Loads, Attach, Enable, sessVars
<1>3. Tracked'
    BY <1>1, SameRequests
<1>4. Remembered' /\ OncePerPage'
    BY <1>1, DetectedOf, NotesKept
<1> QED BY <1>2, <1>3, <1>4 DEF IInv

LEMMA ForgetInv ==
    ASSUME IInv, NEW S \in SUBSET Session, Forget(S) PROVE IInv'
<1>1. Typed /\ Tracked /\ Remembered /\ OncePerPage
    BY DEF IInv
<1>2. /\ sessions' = sessions \ S /\ enabled' = enabled \ S
      /\ networkRequests' = {d \in networkRequests : doc[d].session \notin S}
      /\ doc' = [d \in Doc |-> IF doc[d].session \in S
                               THEN [doc[d] EXCEPT !.state = "over"] ELSE doc[d]]
      /\ shown' = [s \in Session |-> IF s \in S THEN NoDoc ELSE shown[s]]
      /\ reportedKinds' = [s \in Session |-> IF s \in S THEN {} ELSE reportedKinds[s]]
      /\ parsed' = parsed \ S
      /\ UNCHANGED <<detected, used, captcha>>
    BY DEF Forget, DropRequests, eventVars
<1>3. \A d \in Doc : /\ doc'[d].state \in {doc[d].state, "over"}
                     /\ doc'[d].session = doc[d].session
                     /\ doc[d].session \notin S => doc'[d] = doc[d]
    BY <1>1, <1>2 DEF Typed, Loads
<1>4. Typed'
  <2>1. doc' \in [Doc -> Loads]
      BY <1>1, <1>2, OverIsLoad DEF Typed
  <2>2. \A d \in Doc : doc'[d].state # "none" => doc'[d].session \in Session
    <3> SUFFICES ASSUME NEW d \in Doc, doc'[d].state # "none"
                 PROVE  doc[d].session \in Session
        BY <1>3
    <3>1. CASE doc[d].session \in S
        BY <3>1
    <3>2. CASE doc[d].session \notin S
        BY <1>1, <1>3, <3>2 DEF Typed, Loads
    <3> QED BY <3>1, <3>2
  <2>3. /\ shown' \in [Session -> Doc \cup {NoDoc}]
        /\ reportedKinds' \in [Session -> SUBSET Kind]
        /\ sessions' \subseteq sessions /\ enabled' \subseteq sessions'
        /\ networkRequests' \subseteq networkRequests
      BY <1>1, <1>2 DEF Typed, Loads
  <2> QED BY <1>1, <1>2, <2>1, <2>2, <2>3 DEF Typed, Loads
<1>5. Tracked'
    BY <1>1, <1>2, <1>3 DEF Tracked, Typed
<1>6. Remembered' /\ OncePerPage'
  <2>1. ASSUME NEW i \in 1..Len(detected), Noted(detected[i]) PROVE Noted(detected[i])'
    <3>1. detected[i].doc \in Doc
        BY <1>1, DetectedOf
    <3>2. doc'[detected[i].doc].state = "over"
        BY <1>3, <2>1, <3>1 DEF Noted
    <3>3. ASSUME NEW s \in Session, shown'[s] = detected[i].doc
          PROVE  s \notin S /\ shown[s] = detected[i].doc
        BY <1>2, <3>1, <3>3, NavigationAssumption
    <3> QED BY <1>2, <2>1, <3>2, <3>3 DEF Noted
  <2> QED BY <1>1, <1>2, <2>1, SameCaptchas
<1> QED BY <1>4, <1>5, <1>6 DEF IInv

(* A load: sent, answered, failed or committed.                            *)
LEMMA LoadInv ==
    ASSUME IInv, NEW d \in Doc,
           \/ \E s \in Session, f \in {"main", "sub"} : Request(d, s, f)
           \/ Response(d) \/ Commit(d) \/ \E c \in BOOLEAN : Fail(d, c)
    PROVE  IInv'
<1>1. /\ Typed /\ Tracked /\ Remembered /\ OncePerPage
      /\ UNCHANGED <<sessions, used, enabled, detected, reportedKinds, captcha>>
      /\ \A i \in 1..Len(detected) : detected[i].doc \in Doc
    BY DetectedOf DEF IInv, Request, Response, Commit, Fail, sessVars, eventVars, commandVars
<1>2. ASSUME UNCHANGED <<shown, parsed>>, doc[d].state # "over",
             \A g \in Doc \ {d} : doc'[g] = doc[g]
      PROVE  Remembered' /\ OncePerPage'
  <2>1. \A g \in Doc : doc[g].state = "over" => doc'[g].state = "over"
      BY <1>2
  <2> QED BY <1>1, <1>2, <2>1, NotesKept
<1>3. CASE \E s \in Session, f \in {"main", "sub"} : Request(d, s, f)
  <2>1. PICK s \in Session, f \in {"main", "sub"} : Request(d, s, f)
      BY <1>3
  <2>2. /\ doc[d].state = "none" /\ UNCHANGED <<shown, parsed>>
        /\ doc' = [doc EXCEPT ![d] = [state |-> "sent", session |-> s, frame |-> f]]
        /\ networkRequests' = networkRequests \cup (IF s \in enabled THEN {d} ELSE {})
      BY <2>1 DEF Request
  <2>3. Typed'
      BY <1>1, <2>2 DEF Typed, Loads
  <2>4. Tracked'
      BY <1>1, <2>2 DEF Typed, Loads, Tracked
  <2>5. \A g \in Doc \ {d} : doc'[g] = doc[g]
      BY <1>1, <2>2 DEF Typed
  <2> QED BY <1>2, <2>2, <2>3, <2>4, <2>5 DEF IInv
<1>4. CASE Response(d)
  <2>1. /\ doc[d].state = "sent" /\ UNCHANGED <<shown, parsed>>
        /\ doc' = [doc EXCEPT ![d].state = "answered"]
        /\ IF doc[d].session \in enabled THEN networkRequests' = networkRequests \ {d}
                                         ELSE networkRequests' = networkRequests
      BY <1>4 DEF Response, Answered
  <2>2. Typed'
      BY <1>1, <2>1, ZenonT(60) DEF Typed, Loads
  <2>3. Tracked'
      BY <1>1, <2>1 DEF Typed, Loads, Tracked
  <2>4. \A g \in Doc \ {d} : doc'[g] = doc[g]
      BY <1>1, <2>1 DEF Typed
  <2> QED BY <1>2, <2>1, <2>2, <2>3, <2>4 DEF IInv
<1>5. CASE \E c \in BOOLEAN : Fail(d, c)
  <2>1. /\ doc[d].state \in {"sent", "answered"} /\ UNCHANGED <<shown, parsed>>
        /\ doc' = [doc EXCEPT ![d].state = "failed"]
        /\ networkRequests' = networkRequests \ {d}
      BY <1>5 DEF Fail
  <2>2. Typed'
      BY <1>1, <2>1, ZenonT(60) DEF Typed, Loads
  <2>3. Tracked'
      BY <1>1, <2>1 DEF Typed, Loads, Tracked
  <2>4. \A g \in Doc \ {d} : doc'[g] = doc[g]
      BY <1>1, <2>1 DEF Typed
  <2> QED BY <1>2, <2>1, <2>2, <2>3, <2>4 DEF IInv
<1>6. CASE Commit(d)
  <2>1. doc[d].state = "answered" /\ doc[d].session \in Session
      BY <1>1, <1>6 DEF Commit, Typed
  <2>2. PICK s \in Session :
            /\ shown' = [shown EXCEPT ![s] = d]
            /\ doc' = [e \in Doc |-> IF e = shown[s] \/ e = d
                           THEN [doc[e] EXCEPT !.state = "over"] ELSE doc[e]]
            /\ networkRequests' = networkRequests /\ parsed' = parsed \ {s}
            /\ s = doc[d].session
      BY <1>6, <2>1 DEF Commit
  <2>3. Typed'
    <3>1. doc' \in [Doc -> Loads]
        BY <1>1, <2>2, OverIsLoad DEF Typed
    <3>2. \A e \in Doc : doc'[e].state # "none" => doc'[e].session \in Session
      <4> SUFFICES ASSUME NEW e \in Doc, doc'[e].state # "none"
                   PROVE  doc'[e].session \in Session
          OBVIOUS
      <4>1. CASE e # d /\ e # shown[s]
          BY <1>1, <2>2, <4>1 DEF Typed, Loads
      <4>2. CASE e = d
          BY <1>1, <2>1, <2>2, <4>2, ZenonT(60) DEF Typed, Loads
      <4>3. CASE e = shown[s]
        <5>1. shown[s] # NoDoc /\ doc[e].state = "over"
            BY <1>1, <4>3, NavigationAssumption DEF Tracked
        <5>2. doc[e].session \in Session
            BY <1>1, <5>1 DEF Typed, Loads
        <5> QED BY <1>1, <2>2, <4>3, <5>2 DEF Typed, Loads
      <4> QED BY <4>1, <4>2, <4>3
    <3>3. shown' \in [Session -> Doc \cup {NoDoc}]
        BY <1>1, <2>2 DEF Typed, Loads
    <3> QED BY <1>1, <2>2, <3>1, <3>2, <3>3 DEF Typed, Loads
  <2>4. ASSUME NEW e \in networkRequests PROVE doc'[e] = doc[e]
    <3>1. e \in Doc /\ doc[e].state = "sent"
        BY <1>1, <2>4 DEF Tracked, Typed
    <3>2. shown[s] \in Doc => doc[shown[s]].state = "over"
        BY <1>1, NavigationAssumption DEF Tracked
    <3>3. e # d /\ e # shown[s]
        BY <2>1, <3>1, <3>2
    <3> QED BY <2>2, <3>1, <3>3
  <2>5. \A r \in Session : shown'[r] # NoDoc =>
            doc'[shown'[r]].state = "over" /\ doc'[shown'[r]].session = r
    <3> SUFFICES ASSUME NEW r \in Session, shown'[r] # NoDoc
                 PROVE  doc'[shown'[r]].state = "over" /\ doc'[shown'[r]].session = r
        OBVIOUS
    <3>1. doc'[d].state = "over" /\ doc'[d].session = s
        BY <1>1, <2>2 DEF Typed, Loads
    <3>2. CASE r = s
        BY <1>1, <2>2, <3>1, <3>2 DEF Typed, Loads
    <3>3. CASE r # s
      <4>1. /\ shown'[r] = shown[r] /\ shown[r] \in Doc
            /\ doc[shown[r]].state = "over" /\ doc[shown[r]].session = r
          BY <1>1, <2>2, <3>3 DEF Typed, Loads, Tracked
      <4>2. doc[shown[r]] \in Loads
          BY <1>1, <4>1 DEF Typed, Loads
      <4> QED BY <2>2, <4>1, <4>2
    <3> QED BY <3>2, <3>3
  <2>6. Tracked'
    <3>1. \A e \in networkRequests' : doc'[e].state = "sent" /\ doc'[e].session \in enabled'
      <4>1. networkRequests' = networkRequests /\ enabled' = enabled
          BY <1>1, <2>2
      <4>2. \A e \in networkRequests : doc[e].state = "sent" /\ doc[e].session \in enabled
          BY <1>1 DEF Tracked
      <4>3. \A e \in networkRequests : doc'[e] = doc[e]
          BY <2>4
      <4> QED BY ONLY <4>1, <4>2, <4>3
    <3> QED BY <2>5, <3>1 DEF Tracked
  <2>7. ASSUME NEW i \in 1..Len(detected), Noted(detected[i]) PROVE Noted(detected[i])'
    <3>1. detected[i].doc \in Doc \ {d} /\ doc[detected[i].doc].state = "over"
        BY <1>1, <2>1, <2>7 DEF Noted
    <3>2. doc'[detected[i].doc].state = "over"
        BY <1>1, <2>2, <3>1 DEF Typed, Loads
    <3>3. ASSUME NEW r \in Session, shown'[r] = detected[i].doc
          PROVE  r # s /\ shown[r] = detected[i].doc
        BY <1>1, <2>2, <3>1, <3>3 DEF Typed
    <3> QED BY <1>1, <2>2, <2>7, <3>2, <3>3 DEF Noted
  <2>8. Remembered' /\ OncePerPage'
      BY <1>1, <2>7, SameCaptchas
  <2> QED BY <2>3, <2>6, <2>8 DEF IInv
<1> QED BY <1>3, <1>4, <1>5, <1>6

(* The frame tree and captchas.                                            *)
LEMMA PageInv ==
    ASSUME IInv, NEW s \in Session,
           FrameTree(s) \/ DomContent(s) \/ \E d \in Doc, k \in Kind : Inject(d, k)
    PROVE  IInv'
<1>1. /\ Typed /\ Tracked /\ Remembered /\ OncePerPage
      /\ UNCHANGED <<sessions, used, enabled, networkRequests, doc, shown, detected>>
      /\ \A i \in 1..Len(detected) : detected[i].doc \in Doc
  <2>1. Typed /\ Tracked /\ Remembered /\ OncePerPage
      BY DEF IInv
  <2>2. CASE FrameTree(s)
      BY <2>1, <2>2, DetectedOf DEF FrameTree, KnowMainFrame, pageVars
  <2>3. CASE DomContent(s)
      BY <2>1, <2>3, DetectedOf DEF DomContent, commandVars, eventVars
  <2>4. CASE \E d \in Doc, k \in Kind : Inject(d, k)
      BY <2>1, <2>4, DetectedOf DEF Inject, sessVars, eventVars, commandVars
  <2> QED BY <2>2, <2>3, <2>4
<1>2. Tracked'
    BY <1>1, SameRequests
<1>3. CASE FrameTree(s)
  <2>1. UNCHANGED <<parsed, reportedKinds, captcha>>
      BY <1>3 DEF FrameTree, pageVars
  <2> QED BY <1>1, <1>2, <2>1, NotesKept DEF IInv, Typed
<1>4. CASE \E d \in Doc, k \in Kind : Inject(d, k)
  <2>1. UNCHANGED <<parsed, reportedKinds>>
      BY <1>4 DEF Inject, sessVars
  <2>2. captcha' \in [Doc -> Kind \cup {Unknown}]
      BY <1>1, <1>4 DEF Inject, Typed
  <2> QED BY <1>1, <1>2, <2>1, <2>2, NotesKept DEF IInv, Typed
<1>5. CASE DomContent(s)
  <2>1. /\ s \notin parsed /\ parsed' = parsed \cup {s} /\ captcha' = captcha
        /\ reportedKinds' = [reportedKinds EXCEPT ![s] = {}]
      BY <1>5 DEF DomContent
  <2>2. Typed'
      BY <1>1, <2>1 DEF Typed, Loads
  <2>3. ASSUME NEW i \in 1..Len(detected), Noted(detected[i]) PROVE Noted(detected[i])'
    <3> DEFINE e == detected[i]
    <3>1. Noted(e) /\ doc' = doc /\ shown' = shown /\ e' = e
        BY <1>1, <2>3
    <3> HIDE DEF e
    <3>2. ASSUME NEW r \in Session, shown[r] = e.doc
          PROVE  /\ r \notin parsed' => e.early
                 /\ e.early = (r \notin parsed') => e.kind \in reportedKinds'[r]
      <4>1. /\ r \notin parsed => e.early
            /\ e.early = (r \notin parsed) => e.kind \in reportedKinds[r]
          BY <3>1, <3>2 DEF Noted
      <4>2. CASE r = s
          BY <2>1, <4>1, <4>2
      <4>3. CASE r # s
        <5>1. reportedKinds'[r] = reportedKinds[r] /\ (r \in parsed' <=> r \in parsed)
            BY <1>1, <2>1, <4>3 DEF Typed
        <5> QED BY <4>1, <5>1
      <4> QED BY <4>2, <4>3
    <3> QED BY <3>1, <3>2 DEF Noted, e
  <2>4. Remembered' /\ OncePerPage'
      BY <1>1, <2>3, SameCaptchas
  <2> QED BY <1>2, <2>2, <2>4 DEF IInv
<1> QED BY <1>3, <1>4, <1>5

LEMMA ProbeInv == ASSUME IInv, NEW t \in tasks, Probe(t) PROVE IInv'
<1>1. /\ Typed /\ Tracked /\ Remembered /\ OncePerPage
      /\ UNCHANGED <<sessions, used, enabled, networkRequests, doc, shown, parsed, captcha,
                     detected, reportedKinds>>
    BY DEF IInv, Probe, sessVars, eventVars, pageVars
<1>2. Typed' /\ Tracked'
    BY <1>1 DEF Typed, Loads, Tracked
<1>3. Remembered' /\ OncePerPage'
    BY <1>1, DetectedOf, NotesKept
<1> QED BY <1>2, <1>3 DEF IInv

(* A kind is told of only when it is not remembered, and then it is.       *)
LEMMA EvaluateInv == ASSUME IInv, NEW s \in Session, Evaluate(s) PROVE IInv'
<1>1. /\ Typed /\ Tracked /\ Remembered /\ OncePerPage
      /\ UNCHANGED <<sessions, used, enabled, networkRequests, doc, shown, parsed, captcha>>
      /\ \A i \in 1..Len(detected) : detected[i].doc \in Doc
    BY DetectedOf DEF IInv, Evaluate, pageVars
<1>2. Tracked'
    BY <1>1, SameRequests
<1>3. CASE UNCHANGED <<reportedKinds, detected>>
    BY <1>1, <1>2, <1>3, NotesKept DEF IInv, Typed
<1>4. CASE ~UNCHANGED <<reportedKinds, detected>>
  <2> DEFINE d == shown[s]
             k == captcha[d]
             e == [doc |-> d, kind |-> k, early |-> s \notin parsed]
  <2>1. /\ d # NoDoc /\ k # Unknown /\ k \notin reportedKinds[s]
        /\ reportedKinds' = [reportedKinds EXCEPT ![s] = @ \cup {k}]
        /\ detected' = Append(detected, e)
      BY <1>4 DEF Evaluate, Remember
  <2>2. d \in Doc /\ k \in Kind /\ doc[d].state = "over" /\ doc[d].session = s
      BY <1>1, <2>1 DEF Typed, Tracked
  <2>3. /\ e \in [doc : Doc, kind : Kind, early : BOOLEAN]
        /\ e.doc = d /\ e.kind = k /\ e.early = (s \notin parsed)
      BY <2>2
  <2>4. /\ reportedKinds'[s] = reportedKinds[s] \cup {k}
        /\ \A r \in Session \ {s} : reportedKinds'[r] = reportedKinds[r]
        /\ reportedKinds' \in [Session -> SUBSET Kind]
      BY <1>1, <2>1, <2>2 DEF Typed
  <2>5. d = shown[s]
      OBVIOUS
  <2> HIDE DEF d, k, e
  <2>6. /\ detected' \in Seq([doc : Doc, kind : Kind, early : BOOLEAN])
        /\ Len(detected) \in Nat /\ Len(detected') = Len(detected) + 1
        /\ detected'[Len(detected) + 1] = e
        /\ \A i \in 1..Len(detected) : detected'[i] = detected[i]
      BY <1>1, <2>1, <2>3 DEF Typed
  <2>7. Typed'
      BY <1>1, <2>4, <2>6 DEF Typed, Loads
  <2>8. ASSUME NEW f, Noted(f)
        PROVE  /\ doc'[f.doc].state = "over"
               /\ \A r \in Session : shown'[r] = f.doc =>
                     /\ r \notin parsed' => f.early
                     /\ f.early = (r \notin parsed') => f.kind \in reportedKinds'[r]
    <3>1. \A r \in Session : reportedKinds[r] \subseteq reportedKinds'[r]
        BY <2>4
    <3> QED BY <1>1, <2>8, <3>1 DEF Noted
  <2>9. /\ doc'[e.doc].state = "over"
        /\ \A r \in Session : shown'[r] = e.doc =>
              /\ r \notin parsed' => e.early
              /\ e.early = (r \notin parsed') => e.kind \in reportedKinds'[r]
    <3>1. ASSUME NEW r \in Session, shown[r] = d PROVE r = s
        BY <1>1, <2>1, <2>2, <3>1 DEF Tracked
    <3> QED BY <1>1, <2>2, <2>3, <2>4, <3>1
  <2>10. Remembered'
    <3>1. ASSUME NEW i \in 1..Len(detected') PROVE Noted(detected[i])' 
      <4>1. CASE i = Len(detected) + 1
          BY <2>6, <2>9, <4>1 DEF Noted
      <4>2. CASE i # Len(detected) + 1
        <5>1. i \in 1..Len(detected) /\ detected'[i] = detected[i]
            BY <2>6, <4>2
        <5>2. Noted(detected[i])
            BY <1>1, <5>1 DEF Remembered
        <5> QED BY <2>8, <5>1, <5>2 DEF Noted
      <4> QED BY <4>1, <4>2
    <3> QED BY <3>1 DEF Remembered
  <2>11. ASSUME NEW i \in 1..Len(detected) PROVE detected[i] # e
    <3> SUFFICES ASSUME detected[i] = e PROVE FALSE
        OBVIOUS
    <3>1. Noted(e)
        BY <1>1 DEF Remembered
    <3> QED BY <2>1, <2>3, <2>5, <3>1 DEF Noted
  <2>12. OncePerPage'
    <3>1. DOMAIN detected = 1..Len(detected) /\ DOMAIN detected' = 1..(Len(detected) + 1)
        BY <1>1, <2>6 DEF Typed
    <3>2. \A i, j \in 1..Len(detected) : detected[i] = detected[j] => i = j
        BY <1>1, <3>1 DEF OncePerPage
    <3>3. \A i \in 1..(Len(detected) + 1) : i \in 1..Len(detected) \/ i = Len(detected) + 1
        BY <2>6
    <3>4. \A i, j \in 1..(Len(detected) + 1) : detected'[i] = detected'[j] => i = j
        BY <2>6, <2>11, <3>2, <3>3
    <3> QED BY <3>1, <3>4 DEF OncePerPage
  <2> QED BY <1>2, <2>7, <2>10, <2>12 DEF IInv
<1> QED BY <1>3, <1>4

LEMMA NextInv == IInv /\ [Next]_vars => IInv'
<1> SUFFICES ASSUME IInv, [Next]_vars PROVE IInv'
    OBVIOUS
<1>1. CASE Drop
  <2>1. sessions \in SUBSET Session
      BY DEF IInv, Typed
  <2> QED BY <1>1, <2>1, ForgetInv DEF Drop
<1>2. ASSUME NEW s \in Session, Detach(s) PROVE IInv'
    BY <1>2, ForgetInv DEF Detach
<1>3. ASSUME NEW s \in Session, NEW d \in Doc, NEW f \in {"main", "sub"}, Request(d, s, f)
      PROVE  IInv'
    BY <1>3, LoadInv
<1>4. ASSUME NEW s \in Session,
             Attach(s) \/ Enable(s) \/ FrameTree(s) \/ DomContent(s) \/ Evaluate(s)
      PROVE  IInv'
    BY <1>4, OpenInv, PageInv, EvaluateInv
<1>5. ASSUME NEW d \in Doc, Response(d) \/ Commit(d) \/ \E c \in BOOLEAN : Fail(d, c)
      PROVE  IInv'
    BY <1>5, LoadInv
<1>6. ASSUME NEW d \in Doc, NEW k \in Kind, Inject(d, k) PROVE IInv'
  <2>1. PICK s \in Session : shown[s] = d
      BY <1>6 DEF Inject
  <2> QED BY <1>6, PageInv
<1>7. ASSUME NEW t \in tasks, Probe(t) PROVE IInv'
    BY <1>7, ProbeInv
<1>8. CASE UNCHANGED vars
  <2>1. /\ UNCHANGED <<sessions, used, enabled, networkRequests, doc, shown, parsed, captcha,
                       detected, reportedKinds>>
        /\ Typed /\ Tracked /\ Remembered /\ OncePerPage
      BY <1>8 DEF IInv, vars, sessVars, eventVars, commandVars, pageVars
  <2> QED BY <2>1, DetectedOf, NotesKept DEF IInv, Typed, Tracked
<1> QED BY <1>1, <1>2, <1>3, <1>4, <1>5, <1>6, <1>7, <1>8 DEF Next

(* The inductive invariant, whatever the order of events (main.py:80-135). *)
(* For any number of tabs, documents, vendors and probes.                  *)
THEOREM Invariance == Spec => []IInv
BY InitInv, NextInv, PTL DEF Spec

(* network_requests holds only loads under way in open tabs, however many  *)
(* tabs come and go (main.py:91-94, 445-449, 607).                         *)
THEOREM RequestsStayScoped == Spec => []RequestsScoped
<1>1. IInv => RequestsScoped
    BY DEF IInv, Typed, Tracked, RequestsScoped
<1> QED BY <1>1, Invariance, PTL

(* A captcha that persists is told of once by the probes answered since    *)
(* its page's DOMContentLoaded and at most once by earlier ones, whatever  *)
(* the number of probes and loads (main.py:289-294, 392-398).              *)
THEOREM CaptchaOncePerPage == Spec => []OncePerPage
<1>1. IInv => OncePerPage
    BY DEF IInv
<1> QED BY <1>1, Invariance, PTL

-----------------------------------------------------------------------------
(* The responses flush_pending picks: what the loop has kept after the     *)
(* first n of them exists, is unique and is what OnlyIn gives              *)

(* Induction over the naturals, with the set of those the property holds   *)
(* for.                                                                    *)
LEMMA NatInd ==
    ASSUME NEW P \in SUBSET Nat, 0 \in P, \A n \in P : n + 1 \in P
    PROVE  P = Nat
<1> SUFFICES ASSUME Nat \ P # {} PROVE FALSE
    OBVIOUS
<1> DEFINE R == OpToRel(<, Nat)
<1>1. \A k, m \in Nat : <<k, m>> \in R <=> k < m
    BY DEF OpToRel
<1>2. IsWellFoundedOn(R, Nat)
    BY NatLessThanWellFounded, Zenon
<1> HIDE DEF R
<1>3. PICK m \in Nat \ P : \A k \in Nat \ P : ~(<<k, m>> \in R)
    BY <1>2, WFMin
<1>4. m # 0 /\ m - 1 \in Nat /\ m - 1 < m
    BY <1>3
<1>5. m - 1 \in P
    BY <1>1, <1>3, <1>4
<1> QED BY <1>3, <1>4, <1>5

Kept(D, q, n, g) ==
    g = [i \in 0..n |-> IF i = 0 THEN <<>>
                        ELSE IF q[i] \in D THEN Append(g[i - 1], q[i]) ELSE g[i - 1]]

LEMMA KeptExists == ASSUME NEW D, NEW q PROVE \A n \in Nat : \E g : Kept(D, q, n, g)
<1> DEFINE P == {n \in Nat : \E g : Kept(D, q, n, g)}
<1>1. 0 \in P
  <2> DEFINE g == [i \in 0..0 |-> <<>>]
  <2>1. Kept(D, q, 0, g)
      BY DEF Kept
  <2> QED BY <2>1
<1>2. ASSUME NEW n \in P PROVE n + 1 \in P
  <2>1. n \in Nat /\ n + 1 \in Nat
      OBVIOUS
  <2>2. PICK g : Kept(D, q, n, g)
      OBVIOUS
  <2> DEFINE F(f, i) == IF i = 0 THEN <<>>
                        ELSE IF q[i] \in D THEN Append(f[i - 1], q[i]) ELSE f[i - 1]
             h == [i \in 0..(n + 1) |-> F(g, i)]
  <2>3. g = [i \in 0..n |-> F(g, i)]
      BY <2>2 DEF Kept
  <2>4. \A i \in 0..n : h[i] = g[i]
    <3> HIDE DEF F
    <3>1. \A i \in 0..n : i \in 0..(n + 1)
        BY <2>1
    <3> QED BY ONLY <2>3, <3>1 DEF h
  <2>5. ASSUME NEW i \in 0..(n + 1) PROVE F(g, i) = F(h, i)
    <3>1. i # 0 => i - 1 \in 0..n
        BY <2>1
    <3> HIDE DEF h
    <3> QED BY <2>4, <3>1
  <2>6. h = [i \in 0..(n + 1) |-> F(h, i)]
      BY <2>5
  <2> HIDE DEF h
  <2>7. Kept(D, q, n + 1, h)
      BY <2>6 DEF Kept
  <2> QED BY <2>1, <2>7
<1>3. P = Nat
  <2>1. P \in SUBSET Nat
      OBVIOUS
  <2> HIDE DEF P
  <2> QED BY <1>1, <1>2, <2>1, NatInd
<1> QED BY <1>3

LEMMA KeptStep ==
    ASSUME NEW D, NEW q, NEW n \in Nat, NEW g, Kept(D, q, n, g)
    PROVE  /\ g[0] = <<>>
           /\ \A i \in 1..n : g[i] = IF q[i] \in D THEN Append(g[i - 1], q[i]) ELSE g[i - 1]
<1>1. 0 \in 0..n /\ \A i \in 1..n : i \in 0..n /\ i # 0
    OBVIOUS
<1>2. g = [i \in 0..n |-> IF i = 0 THEN <<>>
                          ELSE IF q[i] \in D THEN Append(g[i - 1], q[i]) ELSE g[i - 1]]
    BY DEF Kept
<1> QED BY ONLY <1>1, <1>2

LEMMA OnlyInIs ==
    ASSUME NEW D, NEW q, Len(q) \in Nat
    PROVE  \E g : Kept(D, q, Len(q), g) /\ OnlyIn(D, q) = g[Len(q)]
<1>1. \E g : Kept(D, q, Len(q), g)
    BY KeptExists
<1> DEFINE g == CHOOSE g : Kept(D, q, Len(q), g)
<1>2. Kept(D, q, Len(q), g)
    BY <1>1
<1>3. OnlyIn(D, q) = g[Len(q)]
    BY DEF OnlyIn, Kept
<1> QED BY <1>2, <1>3

(* Two loops that pick the same of the same responses keep the same.       *)
LEMMA KeptAgrees ==
    ASSUME NEW D, NEW E, NEW q, NEW r, NEW m \in Nat, NEW n \in Nat, NEW k \in Nat,
           k <= m, k <= n, NEW g, NEW h, Kept(D, q, m, g), Kept(E, r, n, h),
           \A i \in 1..k : q[i] = r[i] /\ (q[i] \in D <=> q[i] \in E)
    PROVE  g[k] = h[k]
<1> DEFINE P == {i \in Nat : i <= k => g[i] = h[i]}
<1>a. /\ g[0] = <<>>
      /\ \A i \in 1..m : g[i] = IF q[i] \in D THEN Append(g[i - 1], q[i]) ELSE g[i - 1]
    BY ONLY m \in Nat, Kept(D, q, m, g), KeptStep
<1>b. /\ h[0] = <<>>
      /\ \A i \in 1..n : h[i] = IF r[i] \in E THEN Append(h[i - 1], r[i]) ELSE h[i - 1]
    BY ONLY n \in Nat, Kept(E, r, n, h), KeptStep
<1>1. g[0] = <<>> /\ h[0] = <<>>
    BY <1>a, <1>b
<1>2. ASSUME NEW i \in P PROVE i + 1 \in P
  <2> SUFFICES ASSUME i + 1 <= k PROVE g[i + 1] = h[i + 1]
      OBVIOUS
  <2>1. i \in Nat /\ i + 1 \in 1..k /\ i + 1 \in 1..m /\ i + 1 \in 1..n /\ (i + 1) - 1 = i
      OBVIOUS
  <2>2. g[i] = h[i]
      BY <2>1
  <2>3. g[i + 1] = IF q[i + 1] \in D THEN Append(g[i], q[i + 1]) ELSE g[i]
      BY <2>1, <1>a
  <2>4. h[i + 1] = IF r[i + 1] \in E THEN Append(h[i], r[i + 1]) ELSE h[i]
      BY <2>1, <1>b
  <2>5. q[i + 1] = r[i + 1] /\ (q[i + 1] \in D <=> q[i + 1] \in E)
      BY <2>1
  <2> QED BY ONLY <2>2, <2>3, <2>4, <2>5
<1>3. P = Nat
  <2>1. P \in SUBSET Nat /\ 0 \in P
      BY <1>1
  <2> HIDE DEF P
  <2> QED BY <1>2, <2>1, NatInd
<1> QED BY <1>3

LEMMA OnlyInEmpty == ASSUME NEW D PROVE OnlyIn(D, <<>>) = <<>>
<1> DEFINE q == <<>>
<1>1. Len(q) = 0 /\ 0 \in Nat
    OBVIOUS
<1> HIDE DEF q
<1>2. PICK g : Kept(D, q, Len(q), g) /\ OnlyIn(D, q) = g[Len(q)]
    BY <1>1, OnlyInIs
<1>3. g[0] = <<>>
  <2>1. Kept(D, q, Len(q), g) /\ Len(q) \in Nat
      BY <1>1, <1>2
  <2> QED BY ONLY <2>1, KeptStep
<1> QED BY <1>1, <1>2, <1>3 DEF q

LEMMA OnlyInAppend ==
    ASSUME NEW S, NEW D, NEW q \in Seq(S), NEW e \in S
    PROVE  OnlyIn(D, Append(q, e)) =
               IF e \in D THEN Append(OnlyIn(D, q), e) ELSE OnlyIn(D, q)
<1> DEFINE n == Len(q)
           r == Append(q, e)
<1>1. n \in Nat /\ Len(r) = n + 1 /\ n + 1 \in Nat /\ r[n + 1] = e
      /\ \A i \in 1..n : q[i] = r[i]
    OBVIOUS
<1> HIDE DEF n, r
<1>2. PICK g : Kept(D, q, n, g) /\ OnlyIn(D, q) = g[n]
    BY <1>1, OnlyInIs DEF n
<1>3. PICK h : Kept(D, r, n + 1, h) /\ OnlyIn(D, r) = h[n + 1]
    BY <1>1, OnlyInIs
<1>4. g[n] = h[n]
  <2> DEFINE m == n + 1
             E == D
  <2>1. n \in Nat /\ m \in Nat /\ n <= n /\ n <= m
      BY <1>1
  <2>2. Kept(D, q, n, g) /\ Kept(E, r, m, h)
      BY <1>2, <1>3
  <2>3. \A i \in 1..n : q[i] = r[i] /\ (q[i] \in D <=> q[i] \in E)
      BY <1>1
  <2> HIDE DEF m, E
  <2> QED BY ONLY <2>1, <2>2, <2>3, KeptAgrees
<1>5. h[n + 1] = IF r[n + 1] \in D THEN Append(h[n], r[n + 1]) ELSE h[n]
  <2>1. n + 1 \in 1..(n + 1) /\ (n + 1) - 1 = n
      BY <1>1
  <2> QED BY <1>1, <1>3, <2>1, KeptStep
<1> QED BY <1>1, <1>2, <1>3, <1>4, <1>5 DEF r

LEMMA OnlyInSame ==
    ASSUME NEW S, NEW D, NEW E, NEW q \in Seq(S),
           \A i \in 1..Len(q) : q[i] \in D <=> q[i] \in E
    PROVE  OnlyIn(D, q) = OnlyIn(E, q)
<1>1. Len(q) \in Nat
    OBVIOUS
<1>2. PICK g : Kept(D, q, Len(q), g) /\ OnlyIn(D, q) = g[Len(q)]
    BY <1>1, OnlyInIs
<1>3. PICK h : Kept(E, q, Len(q), h) /\ OnlyIn(E, q) = h[Len(q)]
    BY <1>1, OnlyInIs
<1>4. Len(q) <= Len(q)
    BY <1>1
<1> QED BY <1>1, <1>2, <1>3, <1>4, KeptAgrees

LEMMA OnlyInType ==
    ASSUME NEW S, NEW D, NEW q \in Seq(S)
    PROVE  OnlyIn(D, q) \in Seq(S)
<1>1. Len(q) \in Nat /\ \A i \in 1..Len(q) : q[i] \in S
    OBVIOUS
<1>2. PICK g : Kept(D, q, Len(q), g) /\ OnlyIn(D, q) = g[Len(q)]
    BY <1>1, OnlyInIs
<1> DEFINE P == {i \in Nat : i <= Len(q) => g[i] \in Seq(S)}
<1>3. 0 \in P
  <2>1. g[0] = <<>>
    <3>1. Kept(D, q, Len(q), g) /\ Len(q) \in Nat
        BY <1>1, <1>2
    <3> QED BY ONLY <3>1, KeptStep
  <2>2. <<>> \in Seq(S)
      OBVIOUS
  <2> QED BY <2>1, <2>2
<1>4. ASSUME NEW i \in P PROVE i + 1 \in P
  <2> SUFFICES ASSUME i + 1 <= Len(q) PROVE g[i + 1] \in Seq(S)
      OBVIOUS
  <2>1. i \in Nat /\ i + 1 \in 1..Len(q) /\ (i + 1) - 1 = i
      BY <1>1
  <2>2. g[i] \in Seq(S)
      BY <1>1, <2>1
  <2>3. g[i + 1] = IF q[i + 1] \in D THEN Append(g[i], q[i + 1]) ELSE g[i]
      BY <1>1, <1>2, <2>1, KeptStep
  <2> QED BY <1>1, <2>1, <2>2, <2>3
<1>5. P = Nat
  <2>1. P \in SUBSET Nat
      OBVIOUS
  <2> HIDE DEF P
  <2> QED BY <1>3, <1>4, <2>1, NatInd
<1> QED BY <1>1, <1>2, <1>5

-----------------------------------------------------------------------------
(* What was told of the documents                                          *)

(* Documents that answered and were not reported as failed: what may be    *)
(* waiting to be reported, or has been.  A failed one has not answered.    *)
Reportable == {d \in Doc : /\ doc[d].state \notin {"none", "sent"}
                           /\ \A f \in failed : f.doc # d}

(* With R for Reportable and M for the main frame's documents: until the   *)
(* main frame of an open tab is known nothing was reported, and the        *)
(* responses it has seen are those among the pending ones; after that it   *)
(* has reported them.                                                      *)
Tells(R, M, known, waiting, told, got, open, usedIds) ==
    /\ known \in [Session -> BOOLEAN]
    /\ waiting \in [Session -> Seq(R)] /\ told \in [Session -> Seq(R)]
    /\ got \in [Session -> Seq(Doc)]
    /\ \A s \in Session : known[s] => waiting[s] = <<>>
    /\ \A s \in open : IF known[s] THEN told[s] = got[s]
                        ELSE told[s] = <<>> /\ OnlyIn(M, waiting[s]) = got[s]
    /\ \A s \in Session \ usedIds : /\ ~known[s] /\ waiting[s] = <<>>
                                     /\ told[s] = <<>> /\ got[s] = <<>>

FailedOver == \A f \in failed : f.doc \in Doc /\ doc[f.doc].state \in {"failed", "over"}

Told == /\ Tells(Reportable, MainDocs, mainKnown, pending, reported, seen, sessions, used)
        /\ FailedOver

LEMMA TellsGrows ==
    ASSUME NEW R, NEW M, NEW R2, NEW M2, NEW known, NEW waiting, NEW told, NEW got,
           NEW open \in SUBSET Session, NEW usedIds,
           Tells(R, M, known, waiting, told, got, open, usedIds),
           R \subseteq R2, \A d \in R : d \in M <=> d \in M2
    PROVE  Tells(R2, M2, known, waiting, told, got, open, usedIds)
<1>1. /\ known \in [Session -> BOOLEAN]
      /\ waiting \in [Session -> Seq(R)] /\ told \in [Session -> Seq(R)]
      /\ got \in [Session -> Seq(Doc)]
      /\ \A s \in Session : known[s] => waiting[s] = <<>>
      /\ \A s \in open : IF known[s] THEN told[s] = got[s]
                          ELSE told[s] = <<>> /\ OnlyIn(M, waiting[s]) = got[s]
      /\ \A s \in Session \ usedIds : /\ ~known[s] /\ waiting[s] = <<>>
                                       /\ told[s] = <<>> /\ got[s] = <<>>
    BY DEF Tells
<1>2. \A s \in Session : waiting[s] \in Seq(R) /\ told[s] \in Seq(R)
    BY <1>1
<1>3. \A q \in Seq(R) : q \in Seq(R2)
    BY SeqMonotonic
<1>4. \A q \in Seq(R) : OnlyIn(M, q) = OnlyIn(M2, q)
  <2> SUFFICES ASSUME NEW q \in Seq(R) PROVE OnlyIn(M, q) = OnlyIn(M2, q)
      OBVIOUS
  <2>1. \A i \in 1..Len(q) : q[i] \in R
      OBVIOUS
  <2>2. \A i \in 1..Len(q) : q[i] \in M <=> q[i] \in M2
      BY <2>1
  <2> QED BY <2>2, OnlyInSame
<1>5. waiting \in [Session -> Seq(R2)] /\ told \in [Session -> Seq(R2)]
    BY <1>1, <1>2, <1>3
<1>6. \A s \in open : OnlyIn(M, waiting[s]) = OnlyIn(M2, waiting[s])
    BY <1>2, <1>4
<1> QED BY <1>1, <1>5, <1>6 DEF Tells

(* The main frame of a tab becomes known: flush_pending.                   *)
LEMMA FlushTells ==
    ASSUME NEW R, Tells(R, MainDocs, mainKnown, pending, reported, seen, sessions, used),
           sessions \subseteq Session, sessions \subseteq used,
           NEW s \in sessions, KnowMainFrame(s)
    PROVE  Tells(R, MainDocs, mainKnown', pending', reported', seen, sessions, used)
<1>1. /\ mainKnown \in [Session -> BOOLEAN]
      /\ pending \in [Session -> Seq(R)] /\ reported \in [Session -> Seq(R)]
      /\ seen \in [Session -> Seq(Doc)]
      /\ \A t \in Session : mainKnown[t] => pending[t] = <<>>
      /\ \A t \in sessions : IF mainKnown[t] THEN reported[t] = seen[t]
             ELSE reported[t] = <<>> /\ OnlyIn(MainDocs, pending[t]) = seen[t]
      /\ \A t \in Session \ used : /\ ~mainKnown[t] /\ pending[t] = <<>>
                                    /\ reported[t] = <<>> /\ seen[t] = <<>>
    BY DEF Tells
<1>2. s \in Session /\ s \in used
    OBVIOUS
<1> DEFINE main == OnlyIn(MainDocs, pending[s])
           all == reported[s] \o main
<1>3. main \in Seq(R) /\ reported[s] \in Seq(R)
    BY <1>1, <1>2, OnlyInType
<1>4. mainKnown' = [mainKnown EXCEPT ![s] = TRUE] /\ pending' = [pending EXCEPT ![s] = <<>>]
      /\ reported' = [reported EXCEPT ![s] = all]
    BY DEF KnowMainFrame, Flushed
<1>5. all \in Seq(R) /\ all = seen[s]
  <2>1. CASE mainKnown[s]
    <3>1. main = <<>>
        BY <1>1, <1>2, <2>1, OnlyInEmpty
    <3> HIDE DEF main
    <3>2. all = reported[s]
        BY <1>3, <3>1, ConcatEmptySeq
    <3> QED BY <1>1, <1>3, <2>1, <3>2
  <2>2. CASE ~mainKnown[s]
    <3>1. reported[s] = <<>> /\ main = seen[s]
        BY <1>1, <2>2
    <3> HIDE DEF main
    <3>2. all = main
        BY <1>3, <3>1, ConcatEmptySeq
    <3> QED BY <1>3, <3>1, <3>2
  <2> QED BY <2>1, <2>2
<1> HIDE DEF all, main
<1>6. <<>> \in Seq(R)
    OBVIOUS
<1>7. /\ mainKnown' \in [Session -> BOOLEAN] /\ pending' \in [Session -> Seq(R)]
      /\ reported' \in [Session -> Seq(R)]
      /\ mainKnown'[s] /\ pending'[s] = <<>> /\ reported'[s] = seen[s]
      /\ \A t \in Session \ {s} : /\ mainKnown'[t] = mainKnown[t] /\ pending'[t] = pending[t]
                                  /\ reported'[t] = reported[t]
    BY <1>1, <1>2, <1>4, <1>5, <1>6
<1>8. \A t \in Session : mainKnown'[t] => pending'[t] = <<>>
    BY <1>1, <1>7
<1>9. \A t \in sessions : IF mainKnown'[t] THEN reported'[t] = seen[t]
             ELSE reported'[t] = <<>> /\ OnlyIn(MainDocs, pending'[t]) = seen[t]
  <2> SUFFICES ASSUME NEW t \in sessions
               PROVE  IF mainKnown'[t] THEN reported'[t] = seen[t]
                      ELSE reported'[t] = <<>> /\ OnlyIn(MainDocs, pending'[t]) = seen[t]
      OBVIOUS
  <2>1. CASE t = s
      BY <1>7, <2>1
  <2>2. CASE t # s
    <3>1. t \in Session \ {s}
        BY <2>2
    <3> QED BY <1>1, <1>7, <3>1
  <2> QED BY <2>1, <2>2
<1>10. \A t \in Session \ used : /\ ~mainKnown'[t] /\ pending'[t] = <<>>
                                 /\ reported'[t] = <<>> /\ seen[t] = <<>>
    BY <1>1, <1>2, <1>7
<1> QED BY <1>1, <1>7, <1>8, <1>9, <1>10 DEF Tells

(* Documents that go out, fail and are committed, with the rest as it was. *)
LEMMA ToldGrows ==
    ASSUME Typed, Told, UNCHANGED <<mainKnown, pending, reported, seen, sessions, used>>,
           Reportable \subseteq Reportable', FailedOver',
           \A d \in Reportable : d \in MainDocs <=> d \in MainDocs'
    PROVE  Told'
<1> DEFINE R2 == Reportable'
           M2 == MainDocs'
<1>1. sessions \in SUBSET Session
    BY DEF Typed
<1>2. Tells(Reportable, MainDocs, mainKnown, pending, reported, seen, sessions, used)
    BY DEF Told
<1>3. Reportable \subseteq R2 /\ \A d \in Reportable : d \in MainDocs <=> d \in M2
    OBVIOUS
<1>4. Tells(R2, M2, mainKnown, pending, reported, seen, sessions, used)
  <2> HIDE DEF R2, M2
  <2> QED BY ONLY <1>1, <1>2, <1>3, TellsGrows
<1>5. Tells(R2, M2, mainKnown', pending', reported', seen', sessions', used')
    BY <1>4
<1> QED BY <1>5 DEF Told, Tells

LEMMA ToldInit == Init => Told
<1> SUFFICES ASSUME Init PROVE Told
    OBVIOUS
<1>1. /\ sessions = {} /\ used = {} /\ failed = {}
      /\ mainKnown = [s \in Session |-> FALSE] /\ pending = [s \in Session |-> <<>>]
      /\ reported = [s \in Session |-> <<>>] /\ seen = [s \in Session |-> <<>>]
    BY DEF Init
<1>2. <<>> \in Seq(Reportable) /\ <<>> \in Seq(Doc)
    OBVIOUS
<1> QED BY <1>1, <1>2 DEF Told, Tells, FailedOver

LEMMA ToldAttach == ASSUME IInv, Told, NEW s \in Session, Attach(s) PROVE Told'
<1>1. /\ UNCHANGED <<mainKnown, pending, reported, seen, failed, doc>>
      /\ s \notin used /\ used' = used \cup {s} /\ sessions' = sessions \cup {s}
    BY DEF Attach, eventVars, pageVars
<1>2. Tells(Reportable, MainDocs, mainKnown, pending, reported, seen, sessions, used)
      /\ FailedOver
    BY DEF Told
<1>3. OnlyIn(MainDocs, <<>>) = <<>>
    BY OnlyInEmpty
<1>4. ~mainKnown[s] /\ pending[s] = <<>> /\ reported[s] = <<>> /\ seen[s] = <<>>
    BY <1>1, <1>2 DEF Tells
<1>5. Tells(Reportable, MainDocs, mainKnown, pending, reported, seen, sessions', used')
    BY <1>1, <1>2, <1>3, <1>4 DEF Tells
<1>6. Reportable' = Reportable /\ MainDocs' = MainDocs /\ FailedOver'
    BY <1>1, <1>2 DEF Reportable, MainDocs, IsMain, FailedOver
<1>7. Tells(Reportable', MainDocs', mainKnown', pending', reported', seen', sessions', used')
    BY <1>1, <1>5, <1>6
<1> QED BY <1>6, <1>7 DEF Told, Tells

LEMMA ToldForget ==
    ASSUME IInv, Told, NEW S \in SUBSET Session, Forget(S) PROVE Told'
<1>1. /\ sessions' = sessions \ S
      /\ mainKnown' = [s \in Session |-> s \notin S /\ mainKnown[s]]
      /\ pending' = [s \in Session |-> IF s \in S THEN <<>> ELSE pending[s]]
      /\ doc' = [d \in Doc |-> IF doc[d].session \in S
                               THEN [doc[d] EXCEPT !.state = "over"] ELSE doc[d]]
      /\ UNCHANGED <<reported, seen, failed, used>>
    BY DEF Forget, eventVars
<1>2. Tells(Reportable, MainDocs, mainKnown, pending, reported, seen, sessions, used)
      /\ FailedOver /\ Typed
    BY DEF Told, IInv
<1>3. Tells(Reportable, MainDocs, mainKnown', pending', reported, seen, sessions', used)
  <2>1. <<>> \in Seq(Reportable)
      OBVIOUS
  <2>2. \A s \in Session : mainKnown[s] \in BOOLEAN /\ pending[s] \in Seq(Reportable)
      BY <1>2 DEF Tells
  <2>3. /\ mainKnown' \in [Session -> BOOLEAN] /\ pending' \in [Session -> Seq(Reportable)]
      BY <1>1, <2>1, <2>2
  <2>4. \A s \in sessions' : /\ s \in sessions /\ pending'[s] = pending[s]
                             /\ mainKnown'[s] = mainKnown[s]
      BY <1>1, <1>2, <2>2 DEF Typed
  <2>5. \A s \in Session : /\ mainKnown'[s] => mainKnown[s]
                           /\ pending'[s] \in {<<>>, pending[s]}
      BY <1>1, <2>2
  <2>6. \A s \in Session : mainKnown'[s] => pending'[s] = <<>>
      BY <1>2, <2>5 DEF Tells
  <2>7. \A s \in Session \ used : /\ ~mainKnown'[s] /\ pending'[s] = <<>>
                                  /\ reported[s] = <<>> /\ seen[s] = <<>>
      BY <1>2, <2>5 DEF Tells
  <2>8. \A s \in sessions' : IF mainKnown'[s] THEN reported[s] = seen[s]
            ELSE reported[s] = <<>> /\ OnlyIn(MainDocs, pending'[s]) = seen[s]
      BY <1>2, <2>4 DEF Tells
  <2> QED BY <1>2, <2>3, <2>6, <2>7, <2>8 DEF Tells
<1>4. \A d \in Doc : /\ doc'[d].frame = doc[d].frame
                     /\ doc'[d].state \in {doc[d].state, "over"}
    BY <1>1, <1>2 DEF Typed, Loads
<1>5. Reportable \subseteq Reportable' /\ MainDocs' = MainDocs
    BY <1>1, <1>4 DEF Reportable, MainDocs, IsMain
<1>6. FailedOver'
    BY <1>1, <1>2, <1>4 DEF FailedOver
<1> DEFINE R2 == Reportable'
           M2 == MainDocs'
           open == sessions'
           known == mainKnown'
           waiting == pending'
<1>7. open \in SUBSET Session
    BY <1>1, <1>2 DEF Typed
<1>8. Reportable \subseteq R2 /\ \A d \in Reportable : d \in MainDocs <=> d \in M2
    BY <1>5
<1>9. Tells(Reportable, MainDocs, known, waiting, reported, seen, open, used)
    BY <1>3
<1>10. Tells(R2, M2, known, waiting, reported, seen, open, used)
  <2> HIDE DEF R2, M2, open, known, waiting
  <2> QED BY ONLY <1>7, <1>8, <1>9, TellsGrows
<1>11. Tells(Reportable', MainDocs', mainKnown', pending', reported', seen', sessions', used')
    BY <1>1, <1>10
<1> QED BY <1>6, <1>11 DEF Told, Tells

LEMMA ToldFrameTree == ASSUME IInv, Told, NEW s \in Session, FrameTree(s) PROVE Told'
<1>1. /\ UNCHANGED <<seen, failed, doc, sessions, used>> /\ s \in enabled
      /\ KnowMainFrame(s) \/ UNCHANGED <<mainKnown, reported, pending>>
    BY DEF FrameTree, pageVars
<1>2. Tells(Reportable, MainDocs, mainKnown, pending, reported, seen, sessions, used)
      /\ FailedOver /\ Typed
    BY DEF Told, IInv
<1>3. s \in sessions /\ sessions \subseteq Session /\ sessions \subseteq used
    BY <1>1, <1>2 DEF Typed
<1>4. Tells(Reportable, MainDocs, mainKnown', pending', reported', seen, sessions, used)
    BY <1>1, <1>2, <1>3, FlushTells
<1>5. Reportable' = Reportable /\ MainDocs' = MainDocs /\ FailedOver'
    BY <1>1, <1>2 DEF Reportable, MainDocs, IsMain, FailedOver
<1>6. Tells(Reportable', MainDocs', mainKnown', pending', reported', seen', sessions', used')
    BY <1>1, <1>4, <1>5
<1> QED BY <1>5, <1>6 DEF Told, Tells

LEMMA ToldCommit == ASSUME IInv, Told, NEW d \in Doc, Commit(d) PROVE Told'
<1> DEFINE s == doc[d].session
<1>1. /\ UNCHANGED <<seen, failed, sessions, used>>
      /\ doc' = [e \in Doc |-> IF e = shown[s] \/ e = d
                               THEN [doc[e] EXCEPT !.state = "over"] ELSE doc[e]]
      /\ (s \in enabled /\ KnowMainFrame(s)) \/ UNCHANGED <<mainKnown, reported, pending>>
    BY DEF Commit
<1>2. Tells(Reportable, MainDocs, mainKnown, pending, reported, seen, sessions, used)
      /\ FailedOver /\ Typed
    BY DEF Told, IInv
<1>3. Tells(Reportable, MainDocs, mainKnown', pending', reported', seen, sessions, used)
  <2> HIDE DEF s
  <2>1. CASE s \in enabled /\ KnowMainFrame(s)
    <3>1. s \in sessions /\ sessions \subseteq Session /\ sessions \subseteq used
        BY <1>2, <2>1 DEF Typed
    <3> QED BY <1>2, <2>1, <3>1, FlushTells
  <2>2. CASE UNCHANGED <<mainKnown, reported, pending>>
      BY <1>2, <2>2
  <2> QED BY <1>1, <2>1, <2>2
<1>4. \A e \in Doc : /\ doc'[e].frame = doc[e].frame
                     /\ doc'[e].state \in {doc[e].state, "over"}
    BY <1>1, <1>2 DEF Typed, Loads
<1>5. Reportable \subseteq Reportable' /\ MainDocs' = MainDocs
    BY <1>1, <1>4 DEF Reportable, MainDocs, IsMain
<1>6. FailedOver'
    BY <1>1, <1>2, <1>4 DEF FailedOver
<1> DEFINE R2 == Reportable'
           M2 == MainDocs'
           told == reported'
           known == mainKnown'
           waiting == pending'
<1>7. sessions \in SUBSET Session
    BY <1>2 DEF Typed
<1>8. Reportable \subseteq R2 /\ \A e \in Reportable : e \in MainDocs <=> e \in M2
    BY <1>5
<1>9. Tells(Reportable, MainDocs, known, waiting, told, seen, sessions, used)
    BY <1>3
<1>10. Tells(R2, M2, known, waiting, told, seen, sessions, used)
  <2> HIDE DEF R2, M2, told, known, waiting
  <2> QED BY ONLY <1>7, <1>8, <1>9, TellsGrows
<1>11. Tells(Reportable', MainDocs', mainKnown', pending', reported', seen', sessions', used')
    BY <1>1, <1>10
<1> QED BY <1>6, <1>11 DEF Told, Tells

LEMMA ToldRequestFail ==
    ASSUME IInv, Told, NEW d \in Doc,
           \/ \E s \in Session, f \in {"main", "sub"} : Request(d, s, f)
           \/ \E c \in BOOLEAN : Fail(d, c)
    PROVE  Told'
<1>1. /\ UNCHANGED <<mainKnown, pending, reported, seen, sessions, used>>
      /\ Typed /\ Tracked /\ FailedOver
    BY DEF Request, Fail, sessVars, eventVars, IInv, Told
<1>2. CASE \E s \in Session, f \in {"main", "sub"} : Request(d, s, f)
  <2>1. PICK s \in Session, f \in {"main", "sub"} : Request(d, s, f)
      BY <1>2
  <2>2. /\ doc[d].state = "none" /\ failed' = failed
        /\ doc' = [doc EXCEPT ![d] = [state |-> "sent", session |-> s, frame |-> f]]
      BY <2>1 DEF Request, eventVars
  <2>3. d \notin Reportable /\ \A e \in Doc \ {d} : doc'[e] = doc[e]
      BY <1>1, <2>2 DEF Reportable, Typed
  <2>4. Reportable \subseteq Reportable' /\ \A e \in Reportable : e \in MainDocs <=> e \in MainDocs'
      BY <2>2, <2>3 DEF Reportable, MainDocs, IsMain
  <2>5. FailedOver'
      BY <1>1, <2>2, <2>3 DEF FailedOver
  <2> QED BY <1>1, <2>4, <2>5, ToldGrows
<1>3. CASE \E c \in BOOLEAN : Fail(d, c)
  <2>1. /\ doc' = [doc EXCEPT ![d].state = "failed"]
        /\ failed' = failed \/ (d \in networkRequests /\ \E b : failed' = failed \cup {[doc |-> d, isMainFrame |-> b]})
      BY <1>3 DEF Fail
  <2>2. /\ \A e \in Doc \ {d} : doc'[e] = doc[e]
        /\ doc'[d].state = "failed" /\ doc'[d].frame = doc[d].frame
      BY <1>1, <2>1 DEF Typed, Loads
  <2>3. d \in networkRequests => d \notin Reportable
      BY <1>1 DEF Tracked, Reportable
  <2>4. Reportable \subseteq Reportable'
    <3>1. CASE failed' = failed
        BY <2>2, <3>1 DEF Reportable
    <3>2. CASE d \in networkRequests /\ \E b : failed' = failed \cup {[doc |-> d, isMainFrame |-> b]}
        BY <2>2, <2>3, <3>2 DEF Reportable
    <3> QED BY <2>1, <3>1, <3>2
  <2>5. \A e \in Reportable : e \in MainDocs <=> e \in MainDocs'
      BY <2>2 DEF Reportable, MainDocs, IsMain
  <2>6. FailedOver'
      BY <1>1, <2>1, <2>2 DEF FailedOver
  <2> QED BY <1>1, <2>4, <2>5, <2>6, ToldGrows
<1> QED BY <1>2, <1>3

(* A response is held back, reported, or an iframe's.                      *)
LEMMA AnswerTells ==
    ASSUME NEW R \in SUBSET Doc, NEW M,
           Tells(R, M, mainKnown, pending, reported, seen, sessions, used),
           sessions \subseteq Session, sessions \subseteq used,
           NEW s \in sessions, NEW d \in R,
           seen' = [seen EXCEPT ![s] = IF d \in M THEN Append(@, d) ELSE @],
           IF ~mainKnown[s]
           THEN pending' = [pending EXCEPT ![s] = Append(@, d)] /\ reported' = reported
           ELSE /\ reported' = IF d \in M THEN [reported EXCEPT ![s] = Append(@, d)]
                                          ELSE reported
                /\ pending' = pending
    PROVE  Tells(R, M, mainKnown, pending', reported', seen', sessions, used)
<1>1. /\ mainKnown \in [Session -> BOOLEAN]
      /\ pending \in [Session -> Seq(R)] /\ reported \in [Session -> Seq(R)]
      /\ seen \in [Session -> Seq(Doc)]
      /\ \A t \in Session : mainKnown[t] => pending[t] = <<>>
      /\ \A t \in sessions : IF mainKnown[t] THEN reported[t] = seen[t]
             ELSE reported[t] = <<>> /\ OnlyIn(M, pending[t]) = seen[t]
      /\ \A t \in Session \ used : /\ ~mainKnown[t] /\ pending[t] = <<>>
                                    /\ reported[t] = <<>> /\ seen[t] = <<>>
    BY DEF Tells
<1>2. /\ s \in Session /\ s \in used /\ d \in Doc
      /\ pending[s] \in Seq(R) /\ reported[s] \in Seq(R) /\ seen[s] \in Seq(Doc)
      /\ mainKnown[s] \in BOOLEAN
    BY <1>1
<1>3. /\ Append(pending[s], d) \in Seq(R) /\ Append(reported[s], d) \in Seq(R)
      /\ Append(seen[s], d) \in Seq(Doc)
    BY <1>2
<1>4. /\ seen' \in [Session -> Seq(Doc)]
      /\ seen'[s] = IF d \in M THEN Append(seen[s], d) ELSE seen[s]
      /\ \A t \in Session \ {s} : seen'[t] = seen[t]
    BY <1>1, <1>2, <1>3
<1>5. /\ pending' \in [Session -> Seq(R)] /\ reported' \in [Session -> Seq(R)]
      /\ \A t \in Session \ {s} : pending'[t] = pending[t] /\ reported'[t] = reported[t]
      /\ mainKnown[s] => /\ pending'[s] = pending[s]
                         /\ reported'[s] = IF d \in M THEN Append(reported[s], d)
                                                      ELSE reported[s]
      /\ ~mainKnown[s] => /\ pending'[s] = Append(pending[s], d)
                          /\ reported'[s] = reported[s]
  <2>1. CASE ~mainKnown[s]
      BY <1>1, <1>2, <1>3, <2>1
  <2>2. CASE mainKnown[s] /\ d \in M
      BY <1>1, <1>2, <1>3, <2>2
  <2>3. CASE mainKnown[s] /\ d \notin M
      BY <1>1, <1>2, <1>3, <2>3
  <2> QED BY <1>2, <2>1, <2>2, <2>3
<1>6. \A t \in Session : mainKnown[t] => pending'[t] = <<>>
  <2> SUFFICES ASSUME NEW t \in Session, mainKnown[t] PROVE pending'[t] = <<>>
      OBVIOUS
  <2>1. pending'[t] = pending[t]
      BY <1>5
  <2> QED BY <1>1, <2>1
<1>7. \A t \in sessions : IF mainKnown[t] THEN reported'[t] = seen'[t]
             ELSE reported'[t] = <<>> /\ OnlyIn(M, pending'[t]) = seen'[t]
  <2> SUFFICES ASSUME NEW t \in sessions
               PROVE  IF mainKnown[t] THEN reported'[t] = seen'[t]
                      ELSE reported'[t] = <<>> /\ OnlyIn(M, pending'[t]) = seen'[t]
      OBVIOUS
  <2>1. CASE t # s
    <3>1. t \in Session \ {s}
        BY <2>1
    <3> QED BY <1>1, <1>4, <1>5, <3>1
  <2>2. CASE t = s /\ mainKnown[s]
    <3>1. reported[s] = seen[s]
        BY <1>1, <2>2
    <3> QED BY <1>4, <1>5, <2>2, <3>1
  <2>3. CASE t = s /\ ~mainKnown[s]
    <3>1. reported[s] = <<>> /\ OnlyIn(M, pending[s]) = seen[s]
        BY <1>1, <2>3
    <3>2. OnlyIn(M, Append(pending[s], d)) =
              IF d \in M THEN Append(OnlyIn(M, pending[s]), d) ELSE OnlyIn(M, pending[s])
      <4> DEFINE q == pending[s]
      <4>1. q \in Seq(R) /\ d \in R
          BY <1>2
      <4> HIDE DEF q
      <4>2. OnlyIn(M, Append(q, d)) = IF d \in M THEN Append(OnlyIn(M, q), d)
                                                ELSE OnlyIn(M, q)
          BY ONLY <4>1, OnlyInAppend
      <4> QED BY <4>2 DEF q
    <3> QED BY <1>4, <1>5, <2>3, <3>1, <3>2
  <2> QED BY <2>1, <2>2, <2>3
<1>8. \A t \in Session \ used : /\ ~mainKnown[t] /\ pending'[t] = <<>>
                                 /\ reported'[t] = <<>> /\ seen'[t] = <<>>
    BY <1>1, <1>2, <1>4, <1>5
<1> QED BY <1>1, <1>4, <1>5, <1>6, <1>7, <1>8 DEF Tells

LEMMA ToldResponse == ASSUME IInv, Told, NEW d \in Doc, Response(d) PROVE Told'
<1> DEFINE s == doc[d].session
<1>1. /\ doc[d].state = "sent" /\ doc' = [doc EXCEPT ![d].state = "answered"]
      /\ UNCHANGED <<sessions, mainKnown, failed, used>>
      /\ Typed /\ FailedOver
      /\ Tells(Reportable, MainDocs, mainKnown, pending, reported, seen, sessions, used)
    BY DEF Response, IInv, Told
<1>2. /\ doc'[d].state = "answered" /\ doc'[d].frame = doc[d].frame
      /\ \A e \in Doc \ {d} : doc'[e] = doc[e]
    BY <1>1 DEF Typed, Loads
<1>3. FailedOver' /\ \A f \in failed : f.doc # d
    BY <1>1, <1>2 DEF FailedOver
<1>4. Reportable \subseteq Reportable' /\ d \in Reportable' /\ MainDocs' = MainDocs
    BY <1>1, <1>2, <1>3 DEF Reportable, MainDocs, IsMain
<1> DEFINE R2 == Reportable'
<1>5. Tells(R2, MainDocs, mainKnown, pending, reported, seen, sessions, used)
  <2>1. sessions \in SUBSET Session
      BY <1>1 DEF Typed
  <2>2. Reportable \subseteq R2 /\ \A e \in Reportable : e \in MainDocs <=> e \in MainDocs
      BY <1>4
  <2>3. Tells(Reportable, MainDocs, mainKnown, pending, reported, seen, sessions, used)
      BY <1>1
  <2> HIDE DEF R2
  <2> QED BY ONLY <2>1, <2>2, <2>3, TellsGrows
<1>6. Tells(R2, MainDocs, mainKnown, pending', reported', seen', sessions, used)
  <2>1. CASE s \notin enabled
    <3>1. UNCHANGED <<reported, pending, seen>>
        BY <2>1 DEF Response
    <3> QED BY <1>5, <3>1
  <2>2. CASE s \in enabled
    <3>1. s \in sessions /\ sessions \subseteq Session /\ sessions \subseteq used
        BY <1>1, <2>2 DEF Typed
    <3>2. IsMain(d) <=> d \in MainDocs
        BY DEF MainDocs
    <3>3. seen' = [seen EXCEPT ![s] = IF d \in MainDocs THEN Append(@, d) ELSE @]
        BY <2>2, <3>2 DEF Response
    <3>4. IF ~mainKnown[s]
          THEN pending' = [pending EXCEPT ![s] = Append(@, d)] /\ reported' = reported
          ELSE /\ reported' = IF d \in MainDocs THEN [reported EXCEPT ![s] = Append(@, d)]
                                                ELSE reported
               /\ pending' = pending
        BY <2>2, <3>2 DEF Response
    <3>5. R2 \in SUBSET Doc /\ d \in R2
        BY <1>4 DEF Reportable
    <3> HIDE DEF s, R2
    <3> QED BY ONLY <1>5, <3>1, <3>3, <3>4, <3>5, AnswerTells
  <2> QED BY <2>1, <2>2
<1>7. Tells(Reportable', MainDocs', mainKnown', pending', reported', seen', sessions', used')
    BY <1>1, <1>4, <1>6
<1> QED BY <1>3, <1>7 DEF Told, Tells

LEMMA ToldSame ==
    ASSUME IInv, Told,
           UNCHANGED <<mainKnown, pending, reported, seen, sessions, used, failed, doc>>
    PROVE  Told'
<1>1. Reportable' = Reportable /\ MainDocs' = MainDocs /\ FailedOver'
    BY DEF Reportable, MainDocs, IsMain, FailedOver, Told
<1> QED BY <1>1, ToldGrows DEF IInv

LEMMA ToldNext == IInv /\ Told /\ [Next]_vars => Told'
<1> SUFFICES ASSUME IInv, Told, [Next]_vars PROVE Told'
    OBVIOUS
<1>1. CASE Drop
  <2>1. sessions \in SUBSET Session
      BY DEF IInv, Typed
  <2> QED BY <1>1, <2>1, ToldForget DEF Drop
<1>2. ASSUME NEW s \in Session, Detach(s) PROVE Told'
    BY <1>2, ToldForget DEF Detach
<1>3. ASSUME NEW s \in Session, Attach(s) \/ FrameTree(s) PROVE Told'
    BY <1>3, ToldAttach, ToldFrameTree
<1>4. ASSUME NEW s \in Session, Enable(s) \/ DomContent(s) \/ Evaluate(s) PROVE Told'
    BY <1>4, ToldSame DEF Enable, DomContent, Evaluate, sessVars, eventVars, pageVars
<1>5. ASSUME NEW s \in Session, NEW d \in Doc, NEW f \in {"main", "sub"}, Request(d, s, f)
      PROVE  Told'
    BY <1>5, ToldRequestFail
<1>6. ASSUME NEW d \in Doc, Response(d) \/ Commit(d) PROVE Told'
    BY <1>6, ToldResponse, ToldCommit
<1>7. ASSUME NEW d \in Doc, NEW c \in BOOLEAN, Fail(d, c) PROVE Told'
    BY <1>7, ToldRequestFail
<1>8. ASSUME NEW d \in Doc, NEW k \in Kind, Inject(d, k) PROVE Told'
    BY <1>8, ToldSame DEF Inject, sessVars, eventVars
<1>9. ASSUME NEW t \in tasks, Probe(t) PROVE Told'
    BY <1>9, ToldSame DEF Probe, sessVars, eventVars, pageVars
<1>10. CASE UNCHANGED vars
    BY <1>10, ToldSame DEF vars, sessVars, eventVars, pageVars
<1> QED BY <1>1, <1>2, <1>3, <1>4, <1>5, <1>6, <1>7, <1>8, <1>9, <1>10 DEF Next

LEMMA AlwaysTold == Spec => [](IInv /\ Told)
BY InitInv, ToldInit, NextInv, ToldNext, PTL DEF Spec

(* The navigations reported are the main frame's, each once and in order,  *)
(* however many responses, from however many frames, arrive before the     *)
(* main frame is known (main.py:359-366, 377-384, 456-460, 499-516).       *)
THEOREM NavigationsInOrder == Spec => []NavigationsExact
<1>1. ASSUME IInv, Told, NEW s \in sessions
      PROVE  /\ reported[s] \o OnlyIn(MainDocs, pending[s]) = seen[s]
             /\ mainKnown[s] => reported[s] = seen[s]
  <2>1. s \in Session /\ pending[s] \in Seq(Reportable) /\ reported[s] \in Seq(Reportable)
      BY <1>1 DEF IInv, Typed, Told, Tells
  <2>2. OnlyIn(MainDocs, pending[s]) \in Seq(Reportable)
      BY <2>1, OnlyInType
  <2>3. CASE mainKnown[s]
    <3>1. pending[s] = <<>> /\ reported[s] = seen[s]
        BY <1>1, <2>1, <2>3 DEF Told, Tells
    <3>2. OnlyIn(MainDocs, pending[s]) = <<>>
        BY <3>1, OnlyInEmpty
    <3>3. reported[s] \o <<>> = reported[s]
        BY <2>1, ConcatEmptySeq
    <3> QED BY <3>1, <3>2, <3>3
  <2>4. CASE ~mainKnown[s]
    <3>1. reported[s] = <<>> /\ OnlyIn(MainDocs, pending[s]) = seen[s]
        BY <1>1, <2>4 DEF Told, Tells
    <3>2. <<>> \o OnlyIn(MainDocs, pending[s]) = OnlyIn(MainDocs, pending[s])
        BY <2>2, ConcatEmptySeq
    <3> QED BY <2>4, <3>1, <3>2
  <2> QED BY <2>3, <2>4
<1>2. IInv /\ Told => NavigationsExact
    BY <1>1 DEF NavigationsExact
<1> QED BY <1>2, AlwaysTold, PTL

(* No document is reported both as loaded and as failed, whichever comes   *)
(* last of its response, its failure and the frame tree (main.py:496-507,  *)
(* 545-547).                                                               *)
THEOREM NeverBoth == Spec => []LoadedOrFailed
<1>1. ASSUME Told, NEW f \in failed, NEW s \in Session, NEW i \in DOMAIN reported[s]
      PROVE  reported[s][i] # f.doc
  <2>1. reported[s] \in Seq(Reportable)
      BY <1>1 DEF Told, Tells
  <2>2. reported[s][i] \in Reportable
      BY <2>1
  <2> QED BY <2>2 DEF Reportable
<1>2. IInv /\ Told => LoadedOrFailed
    BY <1>1 DEF LoadedOrFailed
<1> QED BY <1>2, AlwaysTold, PTL
=============================================================================
