--------------------------- MODULE DevSessionProofs ---------------------------
(***************************************************************************)
(* Theorems about DevSession: what the session takes as accepted is what   *)
(* the overlay shows, and the overlay never goes back to an older build,   *)
(* for any contents, any number of saves, and any answers of the overlay.  *)
(***************************************************************************)
EXTENDS DevSession, SequenceTheorems, TLAPS

(* A build, or none, has a number; none has the number 0.                  *)
LEMMA BuildNumber ==
    ASSUME NEW b \in Build \cup {NoBuild}
    PROVE  /\ b.n \in Nat
           /\ b = NoBuild <=> b.n = 0
           /\ b # NoBuild => b \in Build
           /\ b.pkg \in Sources \cup {NoSources}
  BY DEF Build, NoBuild

LEMMA InitInv == Init => SessionInv
  <1> SUFFICES ASSUME Init PROVE SessionInv
    OBVIOUS
  <1>1. OverlayTypeOK
    BY DEF Init, OverlayInit, OverlayTypeOK
  <1>2. work \in [read : Sources \cup {NoSources}, typecheck : BOOLEAN,
                  next : {"receive", "send"}]
    BY OptionsType DEF Init
  <1>3. TypeOK
    BY <1>1, <1>2 DEF Init, TypeOK, Steps
  <1>4. AcceptedIsShown
    BY DEF Init, OverlayInit, AcceptedIsShown, NothingAsked, NoBuild
  <1>5. InOrder
    BY DEF Init, OverlayInit, InOrder, NoBuild, Answered
  <1> QED  BY <1>3, <1>4, <1>5 DEF SessionInv

-----------------------------------------------------------------------------
(* The steps of a build.                                                   *)
LEMMA LoadStep == ASSUME SessionInv, Load PROVE SessionInv'
  <1> USE DEF Load, overlayVars, sourceVars, sendVars
  <1>1. TypeOK'
    BY DEF SessionInv, TypeOK, OverlayTypeOK, Steps
  <1>2. AcceptedIsShown' /\ InOrder'
    BY DEF SessionInv, AcceptedIsShown, InOrder, LoopOn, NothingAsked, Asked, Answered, Lost
  <1> QED  BY <1>1, <1>2 DEF SessionInv

LEMMA CheckStep == ASSUME SessionInv, Check PROVE SessionInv'
  <1> USE DEF Check, overlayVars, sourceVars, loopVars
  <1>1. work.read \in Sources /\ builds \in Nat /\ builds + 1 \in Nat \ {0}
    BY DEF SessionInv, TypeOK
  <1>2. [pkg |-> work.read, n |-> builds + 1] \in Build
    BY <1>1 DEF Build
  <1>3. TypeOK'
    <2>1. waiting' \in Build \cup {NoBuild} /\ builds' \in Nat /\ due' \in BOOLEAN
      BY <1>1, <1>2 DEF SessionInv, TypeOK
    <2>2. pc' \in {"receive", "send"}
      BY DEF SessionInv, TypeOK
    <2> QED
      BY <2>1, <2>2 DEF SessionInv, TypeOK, OverlayTypeOK, Steps
  <1>4. AcceptedIsShown'
    BY DEF SessionInv, TypeOK, AcceptedIsShown, LoopOn, NothingAsked, Asked, Answered, Lost
  <1>5. InOrder'
    <2>1. CASE Fails \/ accepted = work.read
      BY <2>1 DEF SessionInv, TypeOK, InOrder, LoopOn, Answered
    <2>2. CASE ~(Fails \/ accepted = work.read)
      <3>1. waiting'.n = builds + 1 /\ builds' = builds + 1
        BY <2>2
      <3>2. /\ retry.n \in Nat /\ retry.n <= builds
            /\ shown.n \in Nat /\ shown.n <= builds
        BY BuildNumber DEF SessionInv, TypeOK, OverlayTypeOK, InOrder
      <3>3. \A r \in asked : r.kind = "install" => r.build.n \in Nat
        BY DEF SessionInv, TypeOK, OverlayTypeOK, Request, Build
      <3> QED
        BY <1>1, <3>1, <3>2, <3>3 DEF SessionInv, InOrder, LoopOn, Answered
    <2> QED  BY <2>1, <2>2
  <1> QED  BY <1>3, <1>4, <1>5 DEF SessionInv

-----------------------------------------------------------------------------
(* What an answer does to the session.                                     *)
LEMMA HeadTail ==
    ASSUME NEW S, NEW s \in Seq(S), s # <<>>
    PROVE  /\ Head(s) \in S /\ Tail(s) \in Seq(S)
           /\ Len(s) = 1 => Head(s) = s[1] /\ Tail(s) = <<>>
  <1>1. Head(s) \in S /\ Tail(s) \in Seq(S) /\ Len(Tail(s)) = Len(s) - 1
    BY HeadTailProperties
  <1>2. Head(s) = s[1]
    OBVIOUS
  <1>3. ASSUME Len(s) = 1 PROVE Tail(s) = <<>>
    <2>1. Len(Tail(s)) = 0
      BY <1>1, <1>3
    <2> QED  BY <1>1, <2>1, EmptySeq
  <1> QED  BY <1>1, <1>2, <1>3

LEMMA HandleTypes ==
    ASSUME TypeOK, NEW reply \in Reply, Handle(reply)
    PROVE  /\ waiting' \in Build \cup {NoBuild} /\ due' \in BOOLEAN
           /\ pending' \in {"none", "install", "remove"}
           /\ retry' \in Build \cup {NoBuild}
           /\ accepted' \in Sources \cup {NoSources}
  <1>1. CASE reply.kind # pending
    BY <1>1 DEF Handle, Keep, TypeOK
  <1>2. CASE reply.kind = pending
    <2>1. Take(reply) /\ pending' = "none" /\ retry' = NoBuild
      BY <1>2 DEF Handle, Take
    <2>2. accepted' = retry.pkg \/ accepted' = accepted
      BY <2>1 DEF Take
    <2>3. retry.pkg \in Sources \cup {NoSources}
      BY BuildNumber DEF TypeOK
    <2>4. \/ waiting' = waiting /\ due' = due
          \/ waiting' = retry /\ due' = FALSE
      BY <2>1 DEF Take
    <2> QED  BY <2>1, <2>2, <2>3, <2>4 DEF TypeOK
  <1> QED  BY <1>1, <1>2

LEMMA ReceiveStep == ASSUME SessionInv, Receive PROVE SessionInv'
  <1> USE DEF Receive, sourceVars, loopVars
  <1>1. TypeOK'
    <2>1. CASE replies # <<>>
      <3>1. Head(replies) \in Reply /\ replies' \in Seq(Reply)
        BY <2>1, HeadTail DEF SessionInv, TypeOK, OverlayTypeOK
      <3>2. Handle(Head(replies)) /\ pc' = "look"
        BY <2>1
      <3> QED
        BY <3>1, <3>2, HandleTypes DEF SessionInv, TypeOK, OverlayTypeOK, Steps
    <2>2. CASE replies = <<>>
      BY <2>2 DEF SessionInv, TypeOK, OverlayTypeOK, Steps, Keep
    <2> QED  BY <2>1, <2>2
  <1>2. CASE replies = <<>>
    <2>1. pc' \in {"look", "ended"} /\ Keep /\ UNCHANGED replies
      BY <1>2
    <2>2. AcceptedIsShown' /\ InOrder'
      BY <2>1 DEF SessionInv, AcceptedIsShown, InOrder, LoopOn, NothingAsked, Asked,
                  Answered, Lost, Keep
    <2> QED  BY <1>1, <2>2 DEF SessionInv
  <1>3. CASE replies # <<>>
    <2>1. /\ pending = "install" /\ asked = {} /\ replies[1].kind = "install"
          /\ Head(replies) = replies[1] /\ Tail(replies) = <<>>
          /\ open => shown.pkg = IF replies[1].code = "ok" THEN retry.pkg ELSE accepted
      <3>1. Answered /\ (open => shown.pkg = IF replies[1].code = "ok" THEN retry.pkg ELSE accepted)
        BY <1>3 DEF SessionInv, AcceptedIsShown, LoopOn, NothingAsked, Asked, Lost
      <3> QED
        BY <1>3, <3>1, HeadTail DEF Answered, SessionInv, TypeOK, OverlayTypeOK
    <2>2. Take(replies[1]) /\ replies' = <<>> /\ pc' = "look"
      BY <1>3, <2>1 DEF Handle
    <2>3. AcceptedIsShown'
      BY <2>1, <2>2 DEF Take, AcceptedIsShown, LoopOn, NothingAsked
    <2>4. InOrder'
      <3>1. /\ waiting.n \in Nat /\ retry.n \in Nat /\ shown.n \in Nat
            /\ NoBuild.n = 0 /\ builds \in Nat
        BY BuildNumber DEF SessionInv, TypeOK, OverlayTypeOK, NoBuild
      <3>2. /\ retry # NoBuild /\ retry.n <= builds /\ waiting.n <= builds
            /\ shown.n <= builds
            /\ waiting # NoBuild => retry.n < waiting.n /\ shown.n < waiting.n
            /\ replies[1].code # "ok" => shown.n < retry.n
        <4>1. Answered /\ LoopOn
          BY <1>3, <2>1 DEF SessionInv, AcceptedIsShown, LoopOn, NothingAsked, Asked, Lost
        <4> QED  BY <4>1, <2>1 DEF SessionInv, InOrder
      <3>3. pending' = "none" /\ retry' = NoBuild /\ asked' = {}
        BY <2>1, <2>2 DEF Take
      <3>4. waiting' = waiting \/ (waiting' = retry /\ replies[1].code # "ok")
        BY <2>1, <2>2 DEF Take
      <3>5. shown' = shown /\ builds' = builds
        OBVIOUS
      <3>6. /\ waiting'.n <= builds' /\ retry'.n <= builds' /\ shown'.n <= builds'
            /\ waiting' # NoBuild => retry'.n < waiting'.n /\ shown'.n < waiting'.n
        <4>1. CASE waiting' = waiting
          <5>1. waiting # NoBuild => waiting.n > 0
            BY BuildNumber DEF SessionInv, TypeOK
          <5> QED
            BY <4>1, <5>1, <3>1, <3>2, <3>3, <3>5
        <4>2. CASE waiting' = retry /\ replies[1].code # "ok"
          BY <4>2, <3>1, <3>2, <3>3, <3>5
        <4> QED  BY <4>1, <4>2, <3>4
      <3> QED
        BY <3>3, <3>6 DEF InOrder, Answered
    <2> QED  BY <1>1, <2>3, <2>4 DEF SessionInv
  <1> QED  BY <1>2, <1>3

-----------------------------------------------------------------------------
(* The other steps of the loop.                                            *)
LEMMA LookStep == ASSUME SessionInv, Look PROVE SessionInv'
  <1> USE DEF Look, overlayVars, sendVars, loopVars
  <1>1. TypeOK'
    <2>1. work' \in [read : Sources \cup {NoSources}, typecheck : BOOLEAN,
                     next : {"receive", "send"}]
      BY DEF SessionInv, TypeOK
    <2>2. typesPending' \in BOOLEAN
      BY OptionsType DEF SessionInv, TypeOK
    <2>3. /\ touched' \subseteq {"typed", "style"} /\ pc' \in {"load", "send"}
          /\ changed' \in {"no", "recent", "settled"}
      BY DEF SessionInv, TypeOK
    <2> QED  BY <2>1, <2>2, <2>3 DEF SessionInv, TypeOK, OverlayTypeOK, Steps
  <1>2. AcceptedIsShown' /\ InOrder'
    BY DEF SessionInv, AcceptedIsShown, InOrder, LoopOn, NothingAsked, Asked, Answered, Lost
  <1> QED  BY <1>1, <1>2 DEF SessionInv

LEMMA DelayStep == ASSUME SessionInv, Settle \/ RetryDue PROVE SessionInv'
  <1> USE DEF Settle, RetryDue, overlayVars, sourceVars, sendVars, loopVars
  <1>1. TypeOK'
    <2>1. CASE Settle
      BY <2>1 DEF SessionInv, TypeOK, OverlayTypeOK
    <2>2. CASE RetryDue
      BY <2>2 DEF SessionInv, TypeOK, OverlayTypeOK
    <2> QED  BY <2>1, <2>2
  <1>2. AcceptedIsShown' /\ InOrder'
    BY DEF SessionInv, AcceptedIsShown, InOrder, LoopOn, NothingAsked, Asked, Answered, Lost
  <1> QED  BY <1>1, <1>2 DEF SessionInv

LEMMA SendStep == ASSUME SessionInv, SendWaiting PROVE SessionInv'
  <1> USE DEF SendWaiting, sourceVars, loopVars
  <1>1. CASE ~(Ready /\ open)
    <2>1. TypeOK'
      BY <1>1 DEF SessionInv, TypeOK, OverlayTypeOK, Steps
    <2>2. AcceptedIsShown' /\ InOrder'
      BY <1>1 DEF SessionInv, AcceptedIsShown, InOrder, LoopOn, NothingAsked, Asked,
                  Answered, Lost
    <2> QED  BY <2>1, <2>2 DEF SessionInv
  <1>2. CASE Ready /\ open
    <2> DEFINE r == [kind |-> "install", build |-> waiting]
    <2>1. /\ NothingAsked /\ shown.pkg = accepted /\ waiting # NoBuild
          /\ shown.n < waiting.n /\ waiting.n <= builds /\ LoopOn
      BY <1>2 DEF Ready, SessionInv, AcceptedIsShown, InOrder, LoopOn, NothingAsked,
                  Asked, Answered, Lost
    <2>2. asked' = {r} /\ retry' = waiting /\ waiting' = NoBuild /\ pending' = "install"
      BY <1>2, <2>1 DEF Ask, NothingAsked
    <2>3. waiting \in Build /\ r \in Request
      BY <2>1, BuildNumber DEF SessionInv, TypeOK, Request
    <2>4. TypeOK'
      BY <1>2, <2>2, <2>3 DEF SessionInv, TypeOK, OverlayTypeOK, Steps
    <2>5. AcceptedIsShown'
      BY <1>2, <2>1, <2>2 DEF AcceptedIsShown, Asked, NothingAsked
    <2>6. InOrder'
      <3>1. /\ waiting.n \in Nat /\ shown.n \in Nat /\ builds \in Nat /\ NoBuild.n = 0
        BY BuildNumber DEF SessionInv, TypeOK, OverlayTypeOK, NoBuild
      <3>2. replies' = <<>> /\ shown' = shown /\ builds' = builds
        BY <2>1 DEF NothingAsked
      <3>3. ~Answered'
        BY <3>2, <2>2 DEF Answered
      <3> QED
        BY <2>1, <2>2, <3>1, <3>2, <3>3 DEF InOrder
    <2> QED  BY <2>4, <2>5, <2>6 DEF SessionInv
  <1> QED  BY <1>1, <1>2

LEMMA EditStep == ASSUME SessionInv, Edit PROVE SessionInv'
  <1>1. PICK part \in {"typed", "style"}, v \in Nat :
          /\ Save(part, v)
          /\ part = "typed" => v \in Typed
          /\ part = "style" => v \in Styles
    BY ContentsType DEF Edit
  <1> USE DEF Save, overlayVars, sendVars, loopVars
  <1>2. disk' \in Sources
    BY <1>1 DEF SessionInv, TypeOK, Sources
  <1>3. TypeOK'
    BY <1>1, <1>2 DEF SessionInv, TypeOK, OverlayTypeOK, Steps
  <1>4. AcceptedIsShown' /\ InOrder'
    BY <1>1 DEF SessionInv, AcceptedIsShown, InOrder, LoopOn, NothingAsked, Asked,
                Answered, Lost
  <1> QED  BY <1>3, <1>4 DEF SessionInv

-----------------------------------------------------------------------------
(* The end of the session: only the order of the builds is still promised. *)
LEMMA EndStep ==
    ASSUME SessionInv, Interrupt \/ Killed \/ StopEnds
    PROVE  SessionInv'
  <1> USE DEF Interrupt, Killed, StopEnds, overlayVars, sourceVars, sendVars, loopVars
  <1>1. TypeOK'
    <2>1. CASE Interrupt
      BY <2>1 DEF SessionInv, TypeOK, OverlayTypeOK
    <2>2. CASE Killed \/ StopEnds
      <3>1. pc' = "ended" /\ UNCHANGED <<overlayVars, sourceVars, loopVars, sendVars, interrupted>>
        BY <2>2
      <3> HIDE DEF Killed, StopEnds, Interrupt
      <3> QED  BY <3>1 DEF SessionInv, TypeOK, OverlayTypeOK, Steps
    <2> QED  BY <2>1, <2>2
  <1>2. AcceptedIsShown'
    <2>1. CASE Interrupt
      BY <2>1 DEF SessionInv, AcceptedIsShown, LoopOn, NothingAsked, Asked, Answered, Lost
    <2>2. CASE Killed \/ StopEnds
      BY <2>2 DEF AcceptedIsShown, LoopOn
    <2> QED  BY <2>1, <2>2
  <1>3. InOrder'
    BY DEF SessionInv, InOrder, LoopOn, Answered
  <1> QED  BY <1>1, <1>2, <1>3 DEF SessionInv

LEMMA StopStep == ASSUME SessionInv, Stop PROVE SessionInv'
  <1> USE DEF Stop, sourceVars, loopVars
  <1>1. ~LoopOn' /\ AcceptedIsShown'
    BY DEF AcceptedIsShown, LoopOn
  <1>2. [kind |-> "remove", build |-> NoBuild] \in Request
    BY DEF Request
  <1>3. TypeOK'
    BY <1>2 DEF SessionInv, TypeOK, OverlayTypeOK, Steps, Ask
  <1>4. \A r \in asked' : r.kind = "install" => r \in asked
    BY DEF Ask
  <1>5. InOrder'
    BY <1>1, <1>4 DEF SessionInv, InOrder
  <1> QED  BY <1>1, <1>3, <1>5 DEF SessionInv

LEMMA StopReceivesStep == ASSUME SessionInv, StopReceives PROVE SessionInv'
  <1> USE DEF StopReceives, sourceVars, loopVars
  <1>1. ~LoopOn' /\ AcceptedIsShown'
    BY DEF AcceptedIsShown, LoopOn
  <1>2. Head(replies) \in Reply /\ replies' \in Seq(Reply)
    BY HeadTail DEF SessionInv, TypeOK, OverlayTypeOK
  <1>3. TypeOK'
    BY <1>2, HandleTypes DEF SessionInv, TypeOK, OverlayTypeOK, Steps
  <1>4. waiting' \in {waiting, retry} /\ retry' \in {retry, NoBuild}
    BY DEF Handle, Take, Keep
  <1>5. builds \in Nat /\ NoBuild.n = 0
    BY DEF SessionInv, TypeOK, NoBuild
  <1>6. InOrder'
    BY <1>1, <1>4, <1>5 DEF SessionInv, InOrder
  <1> QED  BY <1>1, <1>3, <1>6 DEF SessionInv

-----------------------------------------------------------------------------
(* The overlay.                                                            *)
LEMMA AnswerStep ==
    ASSUME SessionInv, NEW r \in asked, NEW code \in {"ok"} \cup Codes, Answer(r, code),
           UNCHANGED <<sourceVars, pc, loopVars, sendVars, interrupted>>
    PROVE  SessionInv'
  <1> USE DEF Answer, sourceVars, loopVars, sendVars
  <1> DEFINE reply == [kind |-> r.kind, code |-> code]
  <1>1. r \in Request /\ r.build \in Build \cup {NoBuild} /\ reply \in Reply
    BY DEF SessionInv, TypeOK, OverlayTypeOK, Request, Reply
  <1>2. replies' \in Seq(Reply)
    BY <1>1 DEF SessionInv, TypeOK, OverlayTypeOK
  <1>3. TypeOK'
    BY <1>1, <1>2 DEF SessionInv, TypeOK, OverlayTypeOK
  <1>4. /\ shown.n \in Nat /\ builds \in Nat /\ retry.n \in Nat /\ waiting.n \in Nat
        /\ NoBuild.n = 0 /\ \A q \in asked : q.build.n \in Nat
    BY BuildNumber DEF SessionInv, TypeOK, OverlayTypeOK, Request, NoBuild
  <1>5. shown'.n <= builds /\ \A q \in asked' : q.kind = "install" => shown'.n < q.build.n
    <2>1. CASE code # "ok"
      BY <2>1 DEF SessionInv, InOrder
    <2>2. CASE code = "ok" /\ r.kind = "install"
      BY <2>2, <1>4 DEF SessionInv, InOrder
    <2>3. CASE code = "ok" /\ r.kind = "remove"
      <3>1. shown' = NoBuild
        BY <2>3, <1>1 DEF Request
      <3> QED
        BY <3>1, <1>4 DEF SessionInv, TypeOK, OverlayTypeOK, InOrder
    <2> QED  BY <2>1, <2>2, <2>3, <1>1 DEF Request
  <1>6. CASE ~LoopOn
    BY <1>3, <1>4, <1>5, <1>6 DEF SessionInv, InOrder, AcceptedIsShown, LoopOn
  <1>7. CASE LoopOn
    <2>1. /\ Asked /\ open /\ shown.pkg = accepted
          /\ r = [kind |-> "install", build |-> retry]
      BY <1>7 DEF SessionInv, AcceptedIsShown, NothingAsked, Asked, Answered, Lost
    <2>2. replies' = <<reply>> /\ asked' = {} /\ reply.kind = "install" /\ reply.code = code
      BY <2>1 DEF Asked
    <2>3. Len(replies') = 1 /\ replies'[1] = reply
      <3>1. \A x : Len(<<x>>) = 1 /\ <<x>>[1] = x
        OBVIOUS
      <3> HIDE DEF reply
      <3> QED  BY <2>2, <3>1
    <2>4. shown' = IF code = "ok" THEN retry ELSE shown
      BY <2>1
    <2>5. AcceptedIsShown'
      BY <2>1, <2>2, <2>3, <2>4 DEF AcceptedIsShown, Answered, Asked
    <2>6. /\ retry # NoBuild /\ shown.n < retry.n
          /\ waiting # NoBuild => retry.n < waiting.n /\ shown.n < waiting.n
      BY <1>7, <2>1 DEF SessionInv, InOrder, Asked
    <2>7. InOrder'
      BY <1>4, <1>5, <2>2, <2>3, <2>4, <2>6 DEF SessionInv, InOrder
    <2> QED  BY <1>3, <2>5, <2>7 DEF SessionInv
  <1> QED  BY <1>6, <1>7

LEMMA QuitStep ==
    ASSUME SessionInv, Quit, UNCHANGED <<sourceVars, pc, loopVars, sendVars, interrupted>>
    PROVE  SessionInv'
  <1> USE DEF Quit, sourceVars, loopVars, sendVars
  <1>1. TypeOK'
    <2>1. OverlayTypeOK'
      BY DEF SessionInv, TypeOK, OverlayTypeOK
    <2> QED  BY <2>1 DEF SessionInv, TypeOK
  <1>2. AcceptedIsShown'
    BY DEF SessionInv, AcceptedIsShown, LoopOn, NothingAsked, Asked, Answered, Lost
  <1>3. InOrder'
    <2>1. /\ shown'.n = 0 /\ builds \in Nat /\ asked' = {}
          /\ waiting # NoBuild => waiting.n > 0
          /\ retry # NoBuild => retry.n > 0
      BY BuildNumber DEF SessionInv, TypeOK, NoBuild
    <2> QED
      BY <2>1 DEF SessionInv, InOrder, LoopOn, AcceptedIsShown, NothingAsked, Asked,
                  Answered, Lost
  <1> QED  BY <1>1, <1>2, <1>3 DEF SessionInv

-----------------------------------------------------------------------------
LEMMA StutterStep == ASSUME SessionInv, UNCHANGED vars PROVE SessionInv'
  <1> USE DEF vars, overlayVars, sourceVars, loopVars, sendVars
  <1>1. TypeOK'
    BY DEF SessionInv, TypeOK, OverlayTypeOK
  <1>2. AcceptedIsShown' /\ InOrder'
    BY DEF SessionInv, AcceptedIsShown, InOrder, LoopOn, NothingAsked, Asked, Answered, Lost
  <1> QED  BY <1>1, <1>2 DEF SessionInv

LEMMA InvStep == ASSUME SessionInv, [Next]_vars PROVE SessionInv'
  <1>1. CASE Session
    BY <1>1, LoadStep, CheckStep, ReceiveStep, LookStep, SendStep, StopStep,
       StopReceivesStep, EndStep DEF Session
  <1>2. CASE Settle \/ RetryDue
    BY <1>2, DelayStep
  <1>3. CASE Interrupt \/ Killed
    BY <1>3, EndStep
  <1>4. CASE Edit
    BY <1>4, EditStep
  <1>5. CASE Overlay \/ Disconnect
    BY <1>5, AnswerStep, QuitStep DEF Overlay, Disconnect
  <1>6. CASE UNCHANGED vars
    BY <1>6, StutterStep
  <1> QED  BY <1>1, <1>2, <1>3, <1>4, <1>5, <1>6 DEF Next

(* The session and the overlay agree on what is accepted, in flight and    *)
(* waiting, whatever is saved, answered, lost or interrupted.              *)
THEOREM SessionInvHolds == Spec => []SessionInv
  <1>1. Init => SessionInv
    BY InitInv
  <1>2. SessionInv /\ [Next]_vars => SessionInv'
    BY InvStep
  <1> QED  BY <1>1, <1>2, PTL DEF Spec

(* An older build never takes the place of a newer one in the overlay.     *)
NeverOlder == shown' # shown /\ shown # NoBuild /\ shown' # NoBuild => shown'.n > shown.n

LEMMA ShownStep == ASSUME SessionInv, [Next]_vars PROVE [NeverOlder]_vars
  <1>1. CASE Overlay
    <2>1. CASE Quit
      BY <2>1 DEF Quit, NeverOlder
    <2>2. ASSUME NEW r \in asked, NEW code \in {"ok"} \cup Codes, Answer(r, code)
          PROVE  NeverOlder
      <3>1. shown' = shown \/ shown' = r.build
        BY <2>2 DEF Answer
      <3>2. r.kind = "remove" => r.build = NoBuild
        BY DEF SessionInv, TypeOK, OverlayTypeOK, Request
      <3>3. r.kind = "install" => shown.n < r.build.n
        BY DEF SessionInv, InOrder
      <3>4. r.kind \in {"install", "remove"} /\ shown.n \in Nat /\ r.build.n \in Nat
        BY BuildNumber DEF SessionInv, TypeOK, OverlayTypeOK, Request
      <3> QED  BY <3>1, <3>2, <3>3, <3>4 DEF NeverOlder
    <2> QED  BY <1>1, <2>1, <2>2 DEF Overlay
  <1>2. CASE Disconnect
    BY <1>2 DEF Disconnect, Quit, NeverOlder
  <1>3. CASE Session \/ Settle \/ RetryDue \/ Interrupt \/ Killed \/ Edit
    <2>1. shown' = shown
      BY <1>3 DEF Session, Load, Check, Receive, Look, SendWaiting, Stop, StopReceives,
                  StopEnds, Settle, RetryDue, Interrupt, Killed, Edit, Save, overlayVars
    <2> QED  BY <2>1 DEF NeverOlder
  <1> QED  BY <1>1, <1>2, <1>3 DEF Next

THEOREM OverlayGoesForward == Spec => NewerOnly
  <1>1. SessionInv /\ [Next]_vars => [NeverOlder]_vars
    BY ShownStep
  <1>2. Spec => [][NeverOlder]_vars
    BY <1>1, SessionInvHolds, PTL DEF Spec
  <1> QED  BY <1>2 DEF NewerOnly, NeverOlder

-----------------------------------------------------------------------------
(* The session implements DevPromise: each of its steps makes, shows or    *)
(* withdraws an offer, or changes nothing that DevPromise sees.            *)

(* The overlay is asked nothing once it is gone.                           *)
AskedOpen == asked # {} => open

LEMMA AskedOpenHolds == Spec => []AskedOpen
  <1>1. Init => AskedOpen
    BY DEF Init, OverlayInit, AskedOpen
  <1>2. ASSUME AskedOpen, [Next]_vars PROVE AskedOpen'
    <2> USE <1>2 DEF AskedOpen
    <2>1. CASE SendWaiting \/ Stop
      BY <2>1 DEF SendWaiting, Stop
    <2>2. CASE Overlay \/ Disconnect
      BY <2>2 DEF Overlay, Disconnect, Answer, Quit
    <2>3. CASE \/ Load \/ Check \/ Receive \/ Look \/ StopReceives \/ StopEnds
               \/ Settle \/ RetryDue \/ Interrupt \/ Killed \/ Edit
      BY <2>3 DEF Load, Check, Receive, Look, StopReceives, StopEnds, Settle, RetryDue,
                  Interrupt, Killed, Edit, Save, overlayVars
    <2>4. CASE UNCHANGED vars
      BY <2>4 DEF vars, overlayVars
    <2> QED  BY <2>1, <2>2, <2>3, <2>4 DEF Next, Session
  <1> QED  BY <1>1, <1>2, PTL DEF Spec

PromiseStep == Promise!Next \/ UNCHANGED Promise!vars

(* The state of the promise, when nothing it depends on changes.           *)
LEMMA NothingSeen ==
    ASSUME UNCHANGED <<overlayVars, disk, work.read, builds, waiting, retry>>,
           LoopOn' = LoopOn
    PROVE  PromiseStep
  <1>1. Offered' = Offered
    BY DEF Offered, overlayVars
  <1> QED  BY <1>1 DEF PromiseStep, Promise!vars, overlayVars

LEMMA PromiseLoad == ASSUME SessionInv, Load PROVE PromiseStep
  <1> USE DEF Load, overlayVars, sourceVars, sendVars
  <1>1. work'.read = disk /\ LoopOn /\ LoopOn'
    BY DEF SessionInv, TypeOK, LoopOn
  <1>2. Offered' = Offered
    BY <1>1 DEF Offered
  <1>3. Promise!Snapshot
    BY <1>1, <1>2 DEF Promise!Snapshot
  <1> QED  BY <1>3 DEF PromiseStep, Promise!Next

LEMMA PromiseCheck == ASSUME SessionInv, Check PROVE PromiseStep
  <1> USE DEF Check, overlayVars, sourceVars, loopVars
  <1>1. LoopOn /\ LoopOn'
    BY DEF SessionInv, TypeOK, LoopOn
  <1>2. CASE Fails \/ accepted = work.read
    BY <1>1, <1>2, NothingSeen
  <1>3. CASE ~(Fails \/ accepted = work.read)
    <2> DEFINE new == [pkg |-> work.read, n |-> builds + 1]
               kept == {b \in Offered : b = retry}
    <2>1. waiting' = new /\ builds' = builds + 1 /\ UNCHANGED <<retry, shown, open>>
      BY <1>3
    <2>2. shown.n \in Nat /\ shown.n <= builds /\ builds \in Nat
      BY BuildNumber DEF SessionInv, TypeOK, OverlayTypeOK, InOrder
    <2>3. new.n > shown.n
      BY <2>2
    <2>4. Offered' = IF open THEN kept \cup {new} ELSE {}
      <3> HIDE DEF new
      <3>1. CASE open
        <4>1. Offered' = {b \in {new, retry} : b.n > shown.n}
          BY <1>1, <2>1, <3>1 DEF Offered
        <4>2. kept = {b \in {retry} : b.n > shown.n}
          BY <1>1, <3>1 DEF Offered
        <4> QED  BY <3>1, <4>1, <4>2, <2>3
      <3>2. CASE ~open
        BY <2>1, <3>2 DEF Offered
      <3> QED  BY <3>1, <3>2
    <2>5. kept \in SUBSET Offered /\ \A b, c \in kept : b = c
      OBVIOUS
    <2>6. Promise!Make
      <3> HIDE DEF kept
      <3> QED  BY <1>1, <2>1, <2>4, <2>5 DEF Promise!Make
    <2> QED  BY <2>6 DEF PromiseStep, Promise!Next
  <1> QED  BY <1>2, <1>3

LEMMA PromiseReceive == ASSUME SessionInv, Receive PROVE PromiseStep
  <1> USE DEF Receive, sourceVars, loopVars
  <1>1. LoopOn
    BY DEF LoopOn
  <1>2. CASE replies = <<>>
    <2>1. Keep /\ UNCHANGED <<overlayVars, disk, work, builds>>
      BY <1>2 DEF overlayVars
    <2>2. CASE open
      BY <1>1, <1>2, <2>1, <2>2, NothingSeen DEF Keep, LoopOn
    <2>3. CASE ~open
      <3>1. Offered = {} /\ Offered' = {} /\ ~LoopOn'
        BY <1>2, <2>1, <2>3 DEF Offered, LoopOn, overlayVars
      <3>2. Promise!End
        BY <1>1, <2>1, <3>1 DEF Promise!End, overlayVars
      <3> QED  BY <3>2 DEF PromiseStep, Promise!Next
    <2> QED  BY <2>2, <2>3
  <1>3. CASE replies # <<>>
    <2>1. /\ Answered /\ Head(replies) = replies[1] /\ replies[1] \in Reply
          /\ open => IF replies[1].code = "ok" THEN shown = retry ELSE shown.pkg = accepted
      <3>1. Answered
            /\ (open => IF replies[1].code = "ok" THEN shown = retry ELSE shown.pkg = accepted)
        BY <1>1, <1>3 DEF SessionInv, AcceptedIsShown, NothingAsked, Asked, Lost
      <3> QED
        BY <1>3, <3>1, HeadTail DEF SessionInv, TypeOK, OverlayTypeOK
    <2>2. Take(replies[1]) /\ LoopOn' /\ UNCHANGED <<open, asked, shown, disk, work, builds>>
      BY <1>3, <2>1 DEF Handle, Answered, LoopOn
    <2>3. /\ waiting.n \in Nat /\ retry.n \in Nat /\ shown.n \in Nat /\ NoBuild.n = 0
          /\ waiting # NoBuild => retry.n < waiting.n /\ shown.n < waiting.n
          /\ replies[1].code # "ok" => shown.n < retry.n
      BY <1>1, <2>1, BuildNumber DEF SessionInv, TypeOK, OverlayTypeOK, InOrder, NoBuild, Answered
    <2>4. retry' = NoBuild
      BY <2>2 DEF Take
    <2>5. CASE ~open
      <3>1. Offered' = Offered
        BY <2>2, <2>5 DEF Offered
      <3> QED  BY <1>1, <2>2, <3>1 DEF PromiseStep, Promise!vars
    <2>6. CASE open /\ (replies[1].code = "ok" \/ (replies[1].code = "busy" /\ waiting = NoBuild))
      <3>1. CASE replies[1].code = "ok"
        <4>1. shown = retry /\ waiting' = waiting
          BY <2>1, <2>2, <2>6, <3>1 DEF Take
        <4>2. Offered' = Offered
          <5>1. Offered' = {b \in {waiting, NoBuild} : b.n > shown.n}
            BY <2>2, <2>4, <2>6, <4>1 DEF Offered
          <5>2. Offered = {b \in {waiting, retry} : b.n > shown.n}
            BY <1>1, <2>6 DEF Offered
          <5>3. ~(NoBuild.n > shown.n) /\ ~(retry.n > shown.n)
            BY <2>3, <4>1
          <5> HIDE DEF Receive
          <5> QED  BY <5>1, <5>2, <5>3
        <4> QED  BY <1>1, <2>2, <4>2 DEF PromiseStep, Promise!vars
      <3>2. CASE replies[1].code = "busy" /\ waiting = NoBuild
        <4>1. waiting' = retry
          BY <2>1, <2>2, <3>2 DEF Take, Answered
        <4>2. Offered' = Offered
          <5>1. Offered' = {b \in {retry, NoBuild} : b.n > shown.n}
            BY <2>2, <2>4, <2>6, <4>1 DEF Offered
          <5>2. Offered = {b \in {NoBuild, retry} : b.n > shown.n}
            BY <1>1, <2>6, <3>2 DEF Offered
          <5> QED  BY <5>1, <5>2
        <4> QED  BY <1>1, <2>2, <4>2 DEF PromiseStep, Promise!vars
      <3> QED  BY <2>6, <3>1, <3>2
    <2>7. CASE /\ open /\ replies[1].code # "ok"
               /\ ~(replies[1].code = "busy" /\ waiting = NoBuild)
      <3>1. waiting' = waiting
        BY <2>1, <2>2, <2>7 DEF Take, Answered
      <3>2. retry \in Offered /\ Offered = {b \in {waiting, retry} : b.n > shown.n}
        BY <1>1, <2>3, <2>7 DEF Offered
      <3>3. Offered' = Offered \ {retry}
        <4>1. Offered' = {b \in {waiting, NoBuild} : b.n > shown.n}
          BY <2>2, <2>4, <2>7, <3>1 DEF Offered
        <4>2. waiting # retry \/ waiting = NoBuild
          BY <2>3
        <4> QED  BY <2>3, <2>7, <3>2, <4>1, <4>2
      <3>4. \/ \E c \in Offered : c.n > retry.n
            \/ "other" \in Codes /\ Offered = {retry}
        <4>1. CASE waiting = NoBuild
          <5>1. replies[1].code = "other"
            BY <2>1, <2>7, <4>1, ContentsType DEF Reply
          <5>2. "other" \in Codes
            BY <2>1, <5>1 DEF Reply
          <5>3. Offered = {retry}
            BY <2>3, <3>2, <4>1
          <5> QED  BY <5>2, <5>3
        <4>2. CASE waiting # NoBuild
          BY <2>3, <3>2, <4>2
        <4> QED  BY <4>1, <4>2
      <3>5. Promise!Withdraw(retry)
        BY <1>1, <2>2, <3>3, <3>4 DEF Promise!Withdraw
      <3> QED  BY <3>2, <3>5 DEF PromiseStep, Promise!Next
    <2> QED  BY <2>5, <2>6, <2>7
  <1> QED  BY <1>2, <1>3

LEMMA PromiseSend == ASSUME SessionInv, SendWaiting PROVE PromiseStep
  <1> USE DEF SendWaiting, sourceVars, loopVars
  <1>1. LoopOn
    BY DEF LoopOn
  <1>2. CASE Ready /\ open
    <2>1. waiting' = NoBuild /\ retry' = waiting /\ LoopOn'
      BY <1>2 DEF LoopOn
    <2>2. retry = NoBuild
      BY <1>1, <1>2 DEF SessionInv, AcceptedIsShown, Ready, NothingAsked, Asked, Answered, Lost
    <2>3. UNCHANGED <<open, shown, disk, work, builds>>
      OBVIOUS
    <2>4. Offered' = Offered
      <3>1. Offered' = {b \in {NoBuild, waiting} : b.n > shown.n}
        BY <1>2, <2>1, <2>3 DEF Offered
      <3>2. Offered = {b \in {waiting, NoBuild} : b.n > shown.n}
        BY <1>1, <1>2, <2>2 DEF Offered
      <3> QED  BY <3>1, <3>2
    <2> QED  BY <1>1, <2>1, <2>3, <2>4 DEF PromiseStep, Promise!vars
  <1>3. CASE Ready /\ ~open
    <2>1. Offered = {} /\ Offered' = {} /\ ~LoopOn'
      BY <1>3 DEF Offered, LoopOn
    <2>2. Promise!End
      BY <1>1, <1>3, <2>1 DEF Promise!End
    <2> QED  BY <2>2 DEF PromiseStep, Promise!Next
  <1>4. CASE ~Ready
    BY <1>1, <1>4, NothingSeen DEF overlayVars, LoopOn
  <1> QED  BY <1>2, <1>3, <1>4

(* The end of the loop: what the overlay was asked is all that is offered. *)
LEMMA PromiseEnds ==
    ASSUME SessionInv, LoopOn, ~LoopOn',
           UNCHANGED <<open, shown, disk, work, builds, retry>>,
           \A q : q.kind = "install" => (q \in asked' <=> q \in asked)
    PROVE  PromiseStep
  <1>1. Offered' = IF open THEN {q.build : q \in {r \in asked : r.kind = "install"}} ELSE {}
    BY DEF Offered
  <1>2. \A q \in asked : q.kind = "install" =>
          q.build = retry /\ q.build.n > shown.n
    <2>1. SUFFICES ASSUME NEW q \in asked, q.kind = "install"
                   PROVE  q.build = retry /\ q.build.n > shown.n
      OBVIOUS
    <2>2. Asked
      BY <2>1 DEF SessionInv, AcceptedIsShown, NothingAsked, Answered, Lost
    <2>3. q.build = retry
      BY <2>1, <2>2 DEF Asked
    <2>4. shown.n < q.build.n
      BY <2>1 DEF SessionInv, InOrder
    <2>5. shown.n \in Nat /\ q.build.n \in Nat
      BY <2>3, BuildNumber DEF SessionInv, TypeOK, OverlayTypeOK
    <2> QED  BY <2>3, <2>4, <2>5
  <1>3. Offered' \subseteq Offered
    BY <1>1, <1>2 DEF Offered
  <1>4. Promise!End
    BY <1>3 DEF Promise!End
  <1> QED  BY <1>4 DEF PromiseStep, Promise!Next

LEMMA PromiseStop ==
    ASSUME SessionInv, Stop \/ Killed \/ StopReceives \/ StopEnds
    PROVE  PromiseStep
  <1>1. CASE Stop
    <2>1. LoopOn /\ ~LoopOn' /\ UNCHANGED <<open, shown, disk, work, builds, retry>>
      BY <1>1 DEF Stop, LoopOn, sourceVars, loopVars
    <2>2. \A q : q.kind = "install" => (q \in asked' <=> q \in asked)
      BY <1>1 DEF Stop, Ask
    <2> QED  BY <2>1, <2>2, PromiseEnds
  <1>2. CASE Killed
    <2>1. /\ UNCHANGED <<overlayVars, disk, work.read, work, builds, waiting, retry>>
          /\ ~LoopOn'
      BY <1>2 DEF Killed, LoopOn, sourceVars, loopVars, sendVars
    <2>2. CASE LoopOn
      BY <2>1, <2>2, PromiseEnds DEF overlayVars
    <2>3. CASE ~LoopOn
      <3>1. LoopOn' = LoopOn
        BY <2>1, <2>3 DEF LoopOn
      <3> QED  BY <2>1, <3>1, NothingSeen
    <2> QED  BY <2>2, <2>3
  <1>3. CASE StopReceives \/ StopEnds
    <2>1. ~LoopOn /\ ~LoopOn' /\ UNCHANGED <<open, asked, shown, disk, work, builds>>
      BY <1>3 DEF StopReceives, StopEnds, LoopOn, sourceVars, loopVars, sendVars, overlayVars
    <2>2. Offered' = Offered
      BY <2>1 DEF Offered
    <2>3. LoopOn' = LoopOn
      BY <2>1 DEF LoopOn
    <2> QED  BY <2>1, <2>2, <2>3 DEF PromiseStep, Promise!vars
  <1> QED  BY <1>1, <1>2, <1>3

LEMMA PromiseQuietSteps ==
    ASSUME SessionInv, Look \/ Settle \/ RetryDue \/ Interrupt PROVE PromiseStep
  <1>1. CASE Look
    <2>1. work'.read = work.read
      BY <1>1 DEF Look, SessionInv, TypeOK, loopVars
    <2> QED
      BY <1>1, <2>1, NothingSeen DEF Look, LoopOn, overlayVars, sendVars
  <1>2. CASE Settle \/ RetryDue \/ Interrupt
    BY <1>2, NothingSeen DEF Settle, RetryDue, Interrupt, LoopOn, sourceVars, loopVars, sendVars
  <1> QED  BY <1>1, <1>2

LEMMA PromiseEdit == ASSUME SessionInv, Edit PROVE PromiseStep
  <1>1. PICK part \in {"typed", "style"}, v \in Nat :
          /\ Save(part, v)
          /\ part = "typed" => v \in Typed
          /\ part = "style" => v \in Styles
    BY ContentsType DEF Edit
  <1>2. disk' \in Sources
    BY <1>1 DEF Save, SessionInv, TypeOK, Sources
  <1>3. /\ LoopOn' = LoopOn
        /\ UNCHANGED <<open, asked, shown, work, builds, waiting, retry>>
    BY <1>1 DEF Save, LoopOn, overlayVars, loopVars, sendVars
  <1>4. Offered' = Offered
    BY <1>3 DEF Offered
  <1>5. Promise!Save
    BY <1>2, <1>3, <1>4 DEF Promise!Save
  <1> QED  BY <1>5 DEF PromiseStep, Promise!Next

LEMMA PromiseAnswer ==
    ASSUME SessionInv, AskedOpen, NEW r \in asked, NEW code \in {"ok"} \cup Codes,
           Answer(r, code), UNCHANGED <<sourceVars, pc, loopVars, sendVars, interrupted>>
    PROVE  PromiseStep
  <1>1. /\ open /\ LoopOn' = LoopOn
        /\ UNCHANGED <<open, disk, work, builds, waiting, retry>>
        /\ asked' = asked \ {r} /\ shown' = IF code = "ok" THEN r.build ELSE shown
    BY DEF Answer, AskedOpen, LoopOn, sourceVars, loopVars, sendVars
  <1>2. r \in Request /\ shown.n \in Nat /\ retry.n \in Nat /\ waiting.n \in Nat
    BY BuildNumber DEF SessionInv, TypeOK, OverlayTypeOK
  <1>3. CASE LoopOn
    <2>1. r = [kind |-> "install", build |-> retry]
      BY <1>3 DEF SessionInv, AcceptedIsShown, NothingAsked, Asked, Answered, Lost
    <2>2. shown.n < retry.n
      BY <2>1 DEF SessionInv, InOrder
    <2>3. Offered = {b \in {waiting, retry} : b.n > shown.n}
      BY <1>1, <1>3 DEF Offered
    <2>4. Offered' = {b \in {waiting, retry} : b.n > shown'.n}
      BY <1>1, <1>3 DEF Offered
    <2>5. CASE code = "ok"
      <3>1. shown' = retry
        BY <1>1, <2>1, <2>5
      <3>2. retry \in Offered /\ Offered' = {c \in Offered : c.n > retry.n}
        BY <1>2, <2>2, <2>3, <2>4, <3>1
      <3>3. Promise!Show(retry)
        BY <1>1, <3>1, <3>2 DEF Promise!Show
      <3> QED  BY <3>2, <3>3 DEF PromiseStep, Promise!Next
    <2>6. CASE code # "ok"
      BY <1>1, <2>3, <2>4, <2>6 DEF PromiseStep, Promise!vars
    <2> QED  BY <2>5, <2>6
  <1>4. CASE ~LoopOn
    <2>1. /\ Offered = {q.build : q \in {p \in asked : p.kind = "install"}}
          /\ Offered' = {q.build : q \in {p \in asked \ {r} : p.kind = "install"}}
      BY <1>1, <1>4 DEF Offered
    <2>2. CASE r.kind = "remove"
      <3>1. Offered' = Offered
        BY <2>1, <2>2
      <3>2. r.build = NoBuild
        BY <1>2, <2>2 DEF Request
      <3>3. CASE code = "ok"
        <4>1. Promise!Remove
          BY <1>1, <1>4, <3>1, <3>2, <3>3 DEF Promise!Remove, Promise!NoBuild, NoBuild
        <4> QED  BY <4>1 DEF PromiseStep, Promise!Next
      <3>4. CASE code # "ok"
        BY <1>1, <3>1, <3>4 DEF PromiseStep, Promise!vars
      <3> QED  BY <3>3, <3>4
    <2>3. CASE r.kind = "install"
      <3>1. \A q \in asked : q.kind = "install" => q = r
        BY <2>3 DEF SessionInv, InOrder
      <3>2. Offered = {r.build} /\ Offered' = {}
        BY <2>1, <2>3, <3>1
      <3>3. CASE code = "ok"
        <4>1. r.build.n \in Nat
          BY <1>2, BuildNumber DEF Request
        <4>2. {c \in Offered : c.n > r.build.n} = {}
          BY <3>2, <4>1
        <4>3. Promise!Show(r.build)
          BY <1>1, <3>2, <3>3, <4>2 DEF Promise!Show
        <4> QED  BY <3>2, <4>3 DEF PromiseStep, Promise!Next
      <3>4. CASE code # "ok"
        <4>1. Promise!Withdraw(r.build)
          BY <1>1, <1>4, <3>2, <3>4 DEF Promise!Withdraw
        <4> QED  BY <3>2, <4>1 DEF PromiseStep, Promise!Next
      <3> QED  BY <3>3, <3>4
    <2> QED  BY <1>2, <2>2, <2>3 DEF Request
  <1> QED  BY <1>3, <1>4

LEMMA PromiseQuit ==
    ASSUME Quit, UNCHANGED <<sourceVars, pc, loopVars, sendVars, interrupted>>
    PROVE  PromiseStep
  <1>1. /\ open /\ ~open' /\ shown' = NoBuild /\ LoopOn' = LoopOn
        /\ UNCHANGED <<disk, work, builds>> /\ open' = FALSE
    BY DEF Quit, LoopOn, sourceVars, loopVars, sendVars
  <1>2. Offered' = {}
    BY <1>1 DEF Offered
  <1>3. Promise!Quit
    BY <1>1, <1>2 DEF Promise!Quit, Promise!NoBuild, NoBuild
  <1> QED  BY <1>3 DEF PromiseStep, Promise!Next

(* The session, whatever is saved, answered, lost or interrupted, offers   *)
(* the overlay snapshots of the sources, goes on to newer ones only, and   *)
(* gives up the newest one only when it is refused or at the end.          *)
THEOREM SessionKeepsPromise == Spec => KeepsPromise
  <1>1. Init => Promise!Init
    <2> SUFFICES ASSUME Init PROVE Promise!Init
      OBVIOUS
    <2>1. LoopOn
      BY DEF Init, LoopOn
    <2>2. Offered = {}
      BY <2>1 DEF Init, OverlayInit, Offered, NoBuild
    <2> QED
      BY <2>1, <2>2 DEF Init, OverlayInit, Promise!Init, Promise!NoBuild, NoBuild
  <1>2. ASSUME SessionInv, AskedOpen, [Next]_vars PROVE [Promise!Next]_(Promise!vars)
    <2>1. CASE Session
      BY <1>2, <2>1, PromiseLoad, PromiseCheck, PromiseReceive, PromiseQuietSteps,
         PromiseSend, PromiseStop DEF Session, PromiseStep
    <2>2. CASE Settle \/ RetryDue \/ Interrupt \/ Killed
      BY <1>2, <2>2, PromiseQuietSteps, PromiseStop DEF PromiseStep
    <2>3. CASE Edit
      BY <1>2, <2>3, PromiseEdit DEF PromiseStep
    <2>4. CASE Overlay \/ Disconnect
      BY <1>2, <2>4, PromiseAnswer, PromiseQuit DEF Overlay, Disconnect, PromiseStep
    <2>5. CASE UNCHANGED vars
      <3>1. UNCHANGED <<overlayVars, disk, work.read, builds, waiting, retry>> /\ LoopOn' = LoopOn
        BY <2>5 DEF vars, overlayVars, sourceVars, loopVars, sendVars, LoopOn
      <3> QED  BY <3>1, NothingSeen DEF PromiseStep
    <2> QED  BY <1>2, <2>1, <2>2, <2>3, <2>4, <2>5 DEF Next
  <1> QED
    BY <1>1, <1>2, SessionInvHolds, AskedOpenHolds, PTL DEF Spec, KeepsPromise, Promise!Spec

(* What the promise gives: offers are newer than what is shown, and the    *)
(* newest build made is not lost.                                          *)
PromiseInv ==
    /\ builds \in Nat /\ shown.n \in Nat /\ \A b \in Offered : b.n \in Nat
    /\ Promise!OffersNewer /\ Promise!NewestKept

LEMMA PromiseInvInit == ASSUME Promise!Init PROVE PromiseInv
  BY DEF Promise!Init, Promise!NoBuild, PromiseInv, Promise!OffersNewer, Promise!NewestKept

LEMMA PromiseInvStep ==
    ASSUME PromiseInv, [Promise!Next]_(Promise!vars) PROVE PromiseInv'
  <1> USE DEF PromiseInv, Promise!OffersNewer, Promise!NewestKept
  <1>1. CASE Promise!Save \/ Promise!Snapshot \/ UNCHANGED Promise!vars
    BY <1>1 DEF Promise!Save, Promise!Snapshot, Promise!vars
  <1>2. CASE Promise!Make
    <2> DEFINE new == [pkg |-> work.read, n |-> builds + 1]
    <2>1. PICK kept \in SUBSET Offered : Offered' = IF open THEN kept \cup {new} ELSE {}
      BY <1>2 DEF Promise!Make
    <2>2. new.n = builds + 1 /\ builds' = builds + 1 /\ UNCHANGED <<shown, LoopOn, open>>
      BY <1>2 DEF Promise!Make
    <2> HIDE DEF new
    <2>3. \A b \in Offered' : b \in Offered \/ b = new
      BY <2>1
    <2>4. open => new \in Offered'
      BY <2>1
    <2>5. builds' \in Nat /\ shown'.n \in Nat /\ shown'.n <= builds'
      BY <2>2
    <2>6. \A b \in Offered' : b.n \in Nat /\ shown'.n < b.n /\ b.n <= builds'
      BY <2>2, <2>3
    <2>7. \A b, c \in Offered' : b.n = c.n => b = c
      BY <2>2, <2>3
    <2>8. Promise!NewestKept'
      BY <2>2, <2>4
    <2> QED  BY <2>5, <2>6, <2>7, <2>8
  <1>3. ASSUME NEW b \in Offered, Promise!Show(b) PROVE PromiseInv'
    <2>1. /\ shown' = b /\ Offered' = {c \in Offered : c.n > b.n}
          /\ UNCHANGED <<builds, LoopOn, open>>
      BY <1>3 DEF Promise!Show
    <2>2. builds' \in Nat /\ shown'.n \in Nat /\ shown'.n <= builds'
      BY <2>1
    <2>3. \A c \in Offered' : c.n \in Nat /\ shown'.n < c.n /\ c.n <= builds'
      BY <2>1
    <2>4. \A c, d \in Offered' : c.n = d.n => c = d
      BY <2>1
    <2>5. Promise!NewestKept'
      <3> SUFFICES ASSUME LoopOn, open, "other" \notin Codes, builds > 0
                   PROVE  \E c \in Offered' \cup {b} : c.n = builds
        BY <2>1
      <3>1. PICK c \in Offered \cup {shown} : c.n = builds
        OBVIOUS
      <3>2. CASE b.n = builds
        BY <3>2
      <3>3. CASE b.n # builds
        <4>1. c \in Offered /\ c.n > b.n
          BY <3>1, <3>3
        <4> QED  BY <2>1, <3>1, <4>1
      <3> QED  BY <3>2, <3>3
    <2> QED  BY <2>2, <2>3, <2>4, <2>5
  <1>4. ASSUME NEW b \in Offered, Promise!Withdraw(b) PROVE PromiseInv'
    <2>1. /\ Offered' = Offered \ {b} /\ UNCHANGED <<builds, shown, LoopOn, open>>
          /\ (\E c \in Offered : c.n > b.n) \/ "other" \in Codes \/ ~LoopOn
      BY <1>4 DEF Promise!Withdraw
    <2>2. /\ builds' \in Nat /\ shown'.n \in Nat /\ shown'.n <= builds'
          /\ \A c \in Offered' : c.n \in Nat /\ shown'.n < c.n /\ c.n <= builds'
          /\ \A c, d \in Offered' : c.n = d.n => c = d
      BY <2>1
    <2>3. Promise!NewestKept'
      <3> SUFFICES ASSUME LoopOn, open, "other" \notin Codes, builds > 0
                   PROVE  \E c \in Offered' \cup {shown} : c.n = builds
        BY <2>1
      <3>1. PICK c \in Offered \cup {shown} : c.n = builds
        OBVIOUS
      <3>2. b.n < builds
        BY <2>1
      <3>3. c # b
        BY <3>1, <3>2
      <3> QED  BY <2>1, <3>1, <3>3
    <2> QED  BY <2>2, <2>3
  <1>5. CASE Promise!End
    BY <1>5 DEF Promise!End
  <1>6. CASE Promise!Remove \/ Promise!Quit
    <2>1. /\ shown' = NoBuild /\ NoBuild.n = 0 /\ builds' = builds
          /\ Offered' \subseteq Offered /\ ~(LoopOn' /\ open')
      BY <1>6 DEF Promise!Remove, Promise!Quit, Promise!NoBuild, NoBuild
    <2> QED  BY <2>1
  <1> QED  BY <1>1, <1>2, <1>3, <1>4, <1>5, <1>6 DEF Promise!Next

THEOREM PromiseInvHolds == KeepsPromise => []PromiseInv
  BY PromiseInvInit, PromiseInvStep, PTL DEF KeepsPromise, Promise!Spec

(* The newest build is shown, in flight or waiting: from the promise.      *)
THEOREM NewestBuildKept == Spec => []NewestNotLost
  <1>1. PromiseInv => NewestNotLost
    <2> SUFFICES ASSUME PromiseInv, LoopOn, open, "other" \notin Codes, builds > 0
                 PROVE  builds \in {shown.n, retry.n, waiting.n}
      BY DEF NewestNotLost
    <2>1. PICK b \in Offered \cup {shown} : b.n = builds
      BY DEF PromiseInv, Promise!NewestKept
    <2>2. b \in {waiting, retry, shown}
      BY DEF Offered
    <2> QED  BY <2>1, <2>2
  <1> QED  BY <1>1, SessionKeepsPromise, PromiseInvHolds, PTL

-----------------------------------------------------------------------------
(* What the developer sees (QuietShowsDisk).                               *)

(* Contents of the sources: each file the same or later.                   *)
NoOlder(s, t) == s.typed <= t.typed /\ s.style <= t.style

(* The package the session is after: waiting, in flight, or accepted.      *)
Latest ==
    IF waiting # NoBuild THEN waiting.pkg
    ELSE IF pending = "install" THEN retry.pkg
    ELSE accepted

(* Packages follow the developer: accepted, in flight, waiting, read, none *)
(* is older than the one before.                                           *)
Follows ==
    LoopOn =>
        /\ NoOlder(accepted, work.read) /\ NoOlder(work.read, disk)
        /\ waiting # NoBuild =>
             NoOlder(accepted, waiting.pkg) /\ NoOlder(waiting.pkg, work.read)
        /\ pending = "install" =>
             /\ NoOlder(accepted, retry.pkg) /\ NoOlder(retry.pkg, work.read)
             /\ waiting # NoBuild => NoOlder(retry.pkg, waiting.pkg)

(* With no save left to look at, the last build read the sources as they   *)
(* are, and the session is after what it made of them.                     *)
Still == LoopOn /\ touched = {} /\ changed = "no"
CaughtUp ==
    /\ Still /\ pc # "load" => work.read = disk
    /\ Still /\ pc \notin {"load", "check"} /\ ~HasErrors(disk) => Latest = disk

TypesAsked == (work.typecheck => Typecheck) /\ (typesPending => Typecheck)

OnwardInv == SessionInv /\ Follows /\ CaughtUp /\ TypesAsked

Contents == Sources \cup {NoSources}

LEMMA OlderOrder ==
    ASSUME NEW s \in Contents, NEW t \in Contents, NEW u \in Contents
    PROVE  /\ NoOlder(s, s) /\ NoOlder(NoSources, s)
           /\ NoOlder(s, t) /\ NoOlder(t, u) => NoOlder(s, u)
           /\ NoOlder(s, t) /\ NoOlder(t, s) => s = t
  <1>1. \A x \in Contents : x \in [typed : Nat, style : Nat]
    <2>1. Sources \subseteq [typed : Nat, style : Nat]
      BY ContentsType DEF Sources
    <2>2. NoSources \in [typed : Nat, style : Nat]
      BY DEF NoSources
    <2> QED  BY <2>1, <2>2 DEF Contents
  <1>2. NoOlder(s, s)
    BY <1>1 DEF NoOlder
  <1>3. NoOlder(NoSources, s)
    BY <1>1 DEF NoOlder, NoSources
  <1>4. NoOlder(s, t) /\ NoOlder(t, u) => NoOlder(s, u)
    BY <1>1 DEF NoOlder
  <1>5. NoOlder(s, t) /\ NoOlder(t, s) => s = t
    <2>1. /\ s \in [typed : Nat, style : Nat] /\ t \in [typed : Nat, style : Nat]
          /\ s.typed \in Nat /\ t.typed \in Nat /\ s.style \in Nat /\ t.style \in Nat
      BY <1>1
    <2>2. NoOlder(s, t) /\ NoOlder(t, s) => s.typed = t.typed /\ s.style = t.style
      BY <2>1 DEF NoOlder
    <2> QED  BY <2>1, <2>2
  <1> QED  BY <1>2, <1>3, <1>4, <1>5

(* The contents the session holds.                                         *)
LEMMA SessionContents ==
    ASSUME SessionInv
    PROVE  /\ accepted \in Contents /\ work.read \in Contents /\ disk \in Contents
           /\ retry.pkg \in Contents /\ waiting.pkg \in Contents
           /\ NoSources \in Contents
  BY BuildNumber DEF SessionInv, TypeOK, Contents

LEMMA OnwardInit == ASSUME Init PROVE OnwardInv
  <1>1. SessionInv
    BY InitInv
  <1>2. /\ accepted = NoSources /\ waiting = NoBuild /\ pending = "none" /\ pc = "load"
        /\ work.read = NoSources /\ work.typecheck = Typecheck /\ typesPending = FALSE
    BY DEF Init
  <1>3. NoOlder(accepted, work.read) /\ NoOlder(work.read, disk)
    BY <1>1, <1>2, OlderOrder, SessionContents
  <1> QED  BY <1>1, <1>2, <1>3 DEF OnwardInv, Follows, CaughtUp, TypesAsked

LEMMA OnwardLoad == ASSUME OnwardInv, Load PROVE OnwardInv'
  <1> USE DEF Load, overlayVars, sourceVars, sendVars
  <1>1. SessionInv /\ SessionInv' /\ LoopOn
    BY LoadStep DEF OnwardInv, LoopOn
  <1>2. work'.read = disk /\ work'.typecheck = work.typecheck
    BY <1>1 DEF SessionInv, TypeOK
  <1>3. /\ NoOlder(accepted, disk) /\ NoOlder(disk, disk)
        /\ waiting # NoBuild => NoOlder(waiting.pkg, disk)
        /\ pending = "install" => NoOlder(retry.pkg, disk)
    <2>1. NoOlder(work.read, disk) /\ NoOlder(disk, disk)
      BY <1>1, SessionContents, OlderOrder DEF OnwardInv, Follows
    <2>2. ASSUME NEW p \in Contents, NoOlder(p, work.read) PROVE NoOlder(p, disk)
      BY <1>1, <2>1, <2>2, SessionContents, OlderOrder
    <2> QED  BY <1>1, <2>1, <2>2, SessionContents DEF OnwardInv, Follows
  <1>4. Follows'
    BY <1>1, <1>2, <1>3 DEF OnwardInv, Follows
  <1>5. CaughtUp'
    BY <1>2 DEF CaughtUp, Still
  <1>6. TypesAsked'
    BY <1>2 DEF OnwardInv, TypesAsked
  <1> QED  BY <1>1, <1>4, <1>5, <1>6 DEF OnwardInv

(* A build that is not kept had errors, or is the one accepted: nothing    *)
(* else is in flight or waits, since it would be newer than the one and no *)
(* newer than the other.                                                   *)
LEMMA OnwardCheck == ASSUME OnwardInv, Check PROVE OnwardInv'
  <1> USE DEF Check, overlayVars, sourceVars, loopVars
  <1>1. SessionInv /\ SessionInv' /\ LoopOn
    BY CheckStep DEF OnwardInv, LoopOn
  <1>2. TypesAsked'
    BY DEF OnwardInv, TypesAsked
  <1>3. Still' => work.read = disk
    BY <1>1 DEF OnwardInv, CaughtUp, Still
  <1>4. /\ NoOlder(accepted, work.read) /\ NoOlder(work.read, disk)
        /\ NoOlder(work.read, work.read)
        /\ waiting # NoBuild =>
             NoOlder(accepted, waiting.pkg) /\ NoOlder(waiting.pkg, work.read)
        /\ pending = "install" =>
             /\ NoOlder(accepted, retry.pkg) /\ NoOlder(retry.pkg, work.read)
             /\ waiting # NoBuild => NoOlder(retry.pkg, waiting.pkg)
    BY <1>1, SessionContents, OlderOrder DEF OnwardInv, Follows
  <1>5. CASE Fails \/ accepted = work.read
    <2>1. UNCHANGED sendVars
      BY <1>5 DEF sendVars
    <2>2. Follows'
      BY <1>4, <2>1 DEF Follows, sendVars
    <2>3. ASSUME Still', ~HasErrors(disk) PROVE Latest = disk
      <3>1. work.read = disk
        BY <1>3, <2>3
      <3>2. accepted = work.read
        BY <1>5, <2>3, <3>1 DEF Fails, HasErrors, OnwardInv, TypesAsked
      <3>3. waiting # NoBuild => waiting.pkg = work.read
        BY <1>1, <1>4, <3>2, SessionContents, OlderOrder
      <3>4. pending = "install" => retry.pkg = work.read
        BY <1>1, <1>4, <3>2, SessionContents, OlderOrder
      <3> QED  BY <3>1, <3>2, <3>3, <3>4 DEF Latest
    <2>4. CaughtUp'
      BY <1>3, <2>1, <2>3 DEF CaughtUp, HasErrors, Latest, sendVars
    <2> QED  BY <1>1, <1>2, <2>2, <2>4 DEF OnwardInv
  <1>6. CASE ~(Fails \/ accepted = work.read)
    <2>1. waiting' = [pkg |-> work.read, n |-> builds + 1]
      BY <1>6
    <2>2. waiting'.pkg = work.read /\ waiting' # NoBuild
      BY <1>1, <2>1 DEF NoBuild, SessionInv, TypeOK
    <2>3. UNCHANGED <<pending, retry, accepted>>
      OBVIOUS
    <2>4. Follows'
      BY <1>4, <2>2, <2>3 DEF Follows
    <2>5. CaughtUp'
      BY <1>3, <2>2 DEF CaughtUp, Latest
    <2> QED  BY <1>1, <1>2, <2>4, <2>5 DEF OnwardInv
  <1> QED  BY <1>5, <1>6

(* A message is the answer to the build in flight: accepted, it takes the  *)
(* place of the one before; busy, it waits unless a newer one does.        *)
LEMMA OnwardReceive ==
    ASSUME OnwardInv, Receive, Codes \subseteq {"busy"} PROVE OnwardInv'
  <1> USE DEF Receive, sourceVars, loopVars
  <1>1. SessionInv /\ SessionInv' /\ LoopOn
    BY ReceiveStep DEF OnwardInv, LoopOn
  <1>2. TypesAsked'
    BY DEF OnwardInv, TypesAsked
  <1>3. Still' => Still /\ pc \notin {"load", "check"}
    BY <1>1 DEF Still
  <1>4. CASE replies = <<>>
    <2>1. UNCHANGED <<waiting, pending, retry, accepted>>
      BY <1>4 DEF Keep
    <2>2. Follows'
      BY <1>1, <2>1 DEF OnwardInv, Follows
    <2>3. CaughtUp'
      BY <1>3, <2>1 DEF OnwardInv, CaughtUp, Latest, HasErrors
    <2> QED  BY <1>1, <1>2, <2>2, <2>3 DEF OnwardInv
  <1>5. CASE replies # <<>>
    <2>1. pending = "install" /\ Len(replies) = 1 /\ replies[1].kind = "install"
      BY <1>1, <1>5 DEF SessionInv, AcceptedIsShown, NothingAsked, Asked, Answered, Lost
    <2>2. Head(replies) = replies[1] /\ replies[1] \in Reply
      BY <1>1, <1>5, <2>1, HeadTail DEF SessionInv, TypeOK, OverlayTypeOK
    <2>3. Take(replies[1])
      BY <1>5, <2>1, <2>2 DEF Handle
    <2>4. replies[1].code \in {"ok", "busy"}
      BY <2>2 DEF Reply
    <2>5. /\ NoOlder(accepted, work.read) /\ NoOlder(work.read, disk)
          /\ waiting # NoBuild =>
               NoOlder(accepted, waiting.pkg) /\ NoOlder(waiting.pkg, work.read)
          /\ NoOlder(accepted, retry.pkg) /\ NoOlder(retry.pkg, work.read)
          /\ waiting # NoBuild => NoOlder(retry.pkg, waiting.pkg)
      BY <1>1, <2>1 DEF OnwardInv, Follows
    <2>6. pending' = "none" /\ retry # NoBuild
      BY <1>1, <2>1, <2>3 DEF Take, SessionInv, InOrder
    <2>7. CASE replies[1].code = "ok"
      <3>1. accepted' = retry.pkg /\ waiting' = waiting
        BY <2>1, <2>3, <2>7 DEF Take
      <3>2. Follows'
        BY <2>5, <2>6, <3>1 DEF Follows
      <3>3. Latest' = Latest
        BY <2>1, <2>6, <3>1 DEF Latest
      <3> QED  BY <1>1, <1>2, <1>3, <3>2, <3>3 DEF OnwardInv, CaughtUp, HasErrors
    <2>8. CASE replies[1].code = "busy"
      <3>1. /\ accepted' = accepted
            /\ waiting' = IF waiting = NoBuild THEN retry ELSE waiting
        BY <2>1, <2>3, <2>8 DEF Take
      <3>2. Follows'
        BY <2>5, <2>6, <3>1 DEF Follows
      <3>3. Latest' = Latest
        BY <2>1, <2>6, <3>1 DEF Latest
      <3> QED  BY <1>1, <1>2, <1>3, <3>2, <3>3 DEF OnwardInv, CaughtUp, HasErrors
    <2> QED  BY <2>4, <2>7, <2>8
  <1> QED  BY <1>4, <1>5

LEMMA OnwardLook == ASSUME OnwardInv, Look PROVE OnwardInv'
  <1> USE DEF Look, overlayVars, sendVars, loopVars
  <1>1. SessionInv /\ SessionInv' /\ LoopOn
    BY LookStep DEF OnwardInv, LoopOn
  <1>2. /\ work'.read = work.read /\ TypesAsked'
    BY <1>1 DEF OnwardInv, TypesAsked, SessionInv, TypeOK
  <1>3. Follows'
    BY <1>1, <1>2 DEF OnwardInv, Follows
  <1>4. CaughtUp'
    <2>1. CASE pc' = "load"
      BY <2>1 DEF CaughtUp
    <2>2. CASE pc' # "load"
      <3>1. Still' => Still /\ work' = work
        BY <1>1, <2>2 DEF Still
      <3> QED  BY <2>2, <3>1 DEF OnwardInv, CaughtUp, Latest, HasErrors
    <2> QED  BY <2>1, <2>2
  <1> QED  BY <1>1, <1>2, <1>3, <1>4 DEF OnwardInv

LEMMA OnwardDelay == ASSUME OnwardInv, Settle \/ RetryDue PROVE OnwardInv'
  <1>1. SessionInv'
    BY DelayStep DEF OnwardInv
  <1>2. CASE Settle
    BY <1>1, <1>2 DEF Settle, overlayVars, sourceVars, sendVars, OnwardInv, Follows, CaughtUp,
       Still, TypesAsked, LoopOn
  <1>3. CASE RetryDue
    BY <1>1, <1>3 DEF RetryDue, overlayVars, sourceVars, loopVars, OnwardInv, Follows, CaughtUp,
       Still, TypesAsked, LoopOn, Latest, HasErrors
  <1> QED  BY <1>2, <1>3

LEMMA OnwardSend == ASSUME OnwardInv, SendWaiting PROVE OnwardInv'
  <1> USE DEF SendWaiting, sourceVars, loopVars
  <1>1. SessionInv /\ SessionInv' /\ LoopOn
    BY SendStep DEF OnwardInv, LoopOn
  <1>2. TypesAsked'
    BY DEF OnwardInv, TypesAsked
  <1>3. Still' => Still /\ pc \notin {"load", "check"}
    BY <1>1 DEF Still
  <1>4. CASE ~(Ready /\ open)
    <2>1. UNCHANGED <<waiting, pending, retry, accepted>>
      BY <1>4
    <2>2. Follows'
      BY <1>1, <2>1 DEF OnwardInv, Follows
    <2>3. CaughtUp'
      BY <1>3, <2>1 DEF OnwardInv, CaughtUp, Latest, HasErrors
    <2> QED  BY <1>1, <1>2, <2>2, <2>3 DEF OnwardInv
  <1>5. CASE Ready /\ open
    <2>1. /\ waiting # NoBuild /\ pending = "none"
          /\ waiting' = NoBuild /\ pending' = "install" /\ retry' = waiting
      BY <1>5 DEF Ready
    <2>2. Follows'
      BY <1>1, <2>1 DEF OnwardInv, Follows
    <2>3. Latest' = Latest
      BY <2>1 DEF Latest
    <2> QED  BY <1>1, <1>2, <1>3, <2>2, <2>3 DEF OnwardInv, CaughtUp, HasErrors
  <1> QED  BY <1>4, <1>5

(* Where the developer never goes back, a save makes the sources newer.    *)
LEMMA OnwardEdit == ASSUME OnwardInv, Edit, ~Reverts PROVE OnwardInv'
  <1>1. PICK part \in {"typed", "style"}, v \in Nat : Save(part, v)
    BY ContentsType DEF Edit
  <1> USE DEF Save, overlayVars, sendVars, loopVars
  <1>2. SessionInv /\ SessionInv' /\ touched' # {}
    BY <1>1, EditStep DEF OnwardInv
  <1>3. NoOlder(disk, disk')
    <2>1. disk \in [typed : Nat, style : Nat]
      BY <1>2, ContentsType DEF SessionInv, TypeOK, Sources
    <2>2. disk' = [disk EXCEPT ![part] = v] /\ v > disk[part]
      BY <1>1
    <2>3. CASE part = "typed"
      BY <2>1, <2>2, <2>3 DEF NoOlder
    <2>4. CASE part = "style"
      BY <2>1, <2>2, <2>4 DEF NoOlder
    <2> QED  BY <2>3, <2>4
  <1>4. LoopOn => NoOlder(work.read, disk')
    <2>1. disk' \in Contents
      BY <1>2 DEF SessionInv, TypeOK, Contents
    <2> QED  BY <1>2, <1>3, <2>1, SessionContents, OlderOrder DEF OnwardInv, Follows
  <1>5. Follows'
    BY <1>1, <1>4 DEF OnwardInv, Follows, LoopOn
  <1>6. CaughtUp'
    BY <1>2 DEF CaughtUp, Still
  <1>7. TypesAsked'
    BY <1>1 DEF OnwardInv, TypesAsked
  <1> QED  BY <1>2, <1>5, <1>6, <1>7 DEF OnwardInv

(* The steps of the overlay, and those that end the loop.                  *)
LEMMA OnwardOther ==
    ASSUME OnwardInv,
           Stop \/ StopReceives \/ StopEnds \/ Interrupt \/ Killed \/ Overlay \/ Disconnect
    PROVE  OnwardInv'
  <1>1. SessionInv'
    BY InvStep DEF OnwardInv, Next, Session
  <1>2. CASE Stop \/ StopReceives \/ StopEnds \/ Killed
    BY <1>1, <1>2 DEF Stop, StopReceives, StopEnds, Killed, loopVars, OnwardInv, Follows,
       CaughtUp, Still, TypesAsked, LoopOn
  <1>3. CASE Interrupt \/ Overlay \/ Disconnect
    <2>1. UNCHANGED <<sourceVars, pc, loopVars, sendVars>>
      BY <1>3 DEF Interrupt, Overlay, Disconnect
    <2> QED
      BY <1>1, <2>1 DEF sourceVars, loopVars, sendVars, OnwardInv, Follows, CaughtUp, Still,
         TypesAsked, LoopOn, Latest, HasErrors
  <1> QED  BY <1>2, <1>3

LEMMA OnwardStep ==
    ASSUME OnwardInv, [Next]_vars, ~Reverts, Codes \subseteq {"busy"} PROVE OnwardInv'
  <1>1. CASE Next
    BY <1>1, OnwardLoad, OnwardCheck, OnwardReceive, OnwardLook, OnwardDelay, OnwardSend,
       OnwardEdit, OnwardOther DEF Next, Session
  <1>2. CASE UNCHANGED vars
    <2>1. SessionInv'
      BY InvStep DEF OnwardInv
    <2> QED
      BY <1>2, <2>1 DEF vars, overlayVars, sourceVars, loopVars, sendVars, OnwardInv, Follows,
         CaughtUp, Still, TypesAsked, LoopOn, Latest, HasErrors
  <1> QED  BY <1>1, <1>2

LEMMA OnwardQuiet == OnwardInv => QuietShowsDisk
  <1> SUFFICES ASSUME OnwardInv, Quiet, open, ~HasErrors(disk) PROVE shown.pkg = disk
    BY DEF QuietShowsDisk
  <1>1. Latest = disk /\ Latest = accepted
    BY DEF OnwardInv, CaughtUp, Still, Quiet, Latest
  <1>2. shown.pkg = accepted
    BY DEF OnwardInv, SessionInv, AcceptedIsShown, Quiet, NothingAsked, Asked, Answered, Lost
  <1> QED  BY <1>1, <1>2

(* Once everything is quiet, the overlay shows the sources as they are,    *)
(* for any contents and any number of saves, when the developer never goes *)
(* back to earlier contents and the overlay refuses a build only because   *)
(* it is busy.                                                             *)
THEOREM QuietShowsTheSources ==
    ASSUME ~Reverts, Codes \subseteq {"busy"}
    PROVE  Spec => []QuietShowsDisk
  <1>1. Init => OnwardInv
    BY OnwardInit
  <1>2. OnwardInv /\ [Next]_vars => OnwardInv'
    BY OnwardStep
  <1> QED  BY <1>1, <1>2, OnwardQuiet, PTL DEF Spec
=============================================================================
