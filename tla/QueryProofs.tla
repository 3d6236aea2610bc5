----------------------------- MODULE QueryProofs -----------------------------
(***************************************************************************)
(* Proofs about GroundedQuery, for every snapshot, budget and model: the   *)
(* events a client is sent come in order, a success is a grounded answer,  *)
(* the response of Ollama is not left open, and the context keeps to its   *)
(* budget and has no deleted source.                                       *)
(***************************************************************************)
EXTENDS GroundedQuery, ListProofs

\* Steps before the first event, and steps of a stream whose answer is whole.
Silent == {"idle", "hydrate", "start"} \cup JsonSteps
Answered == {"citations", "metadata", "finish"}

LastIs(kinds) == events # <<>> /\ events[Len(events)] \in kinds

\* What has been sent when the query is at a step.
EventsKnown ==
    /\ pc \in Silent => events = <<>>
    /\ pc \in {"check", "refuse"} => LastIs({"start"})
    /\ pc \in {"stream", "validate", "error"} => LastIs({"start", "token"})
    /\ pc \in {"stream", "validate"} => answer = <<>> \/ LastIs({"token"})
    /\ pc \in {"start", "check"} => answer = <<>>
    /\ pc = "citations" => LastIs({"token"})
    /\ pc = "metadata" => LastIs({"citations"})
    /\ pc = "finish" => LastIs({"metadata"})

\* What is known of the answer that will be a success.
AnswerKnown ==
    /\ pc \in {"respond"} \cup Answered => Grounded(answer)
    /\ pc \in {"metadata", "finish"} => cited = Verified(answer)
    /\ pc \in {"validate"} \cup Answered => (upstream # "none" => doneSeen)

\* A request to Ollama is open only while it is read or about to be closed; before
\* that, and on the other endpoint, there is none.
UpstreamKnown ==
    /\ upstream = "open" => pc \in {"stream", "close"}
    /\ pc \in Silent \cup {"check", "refuse"} => upstream = "none"

QueryInv ==
    /\ events \in Seq(EventKinds)
    /\ mode \in {"json", "stream"} /\ pc \in Steps
    /\ pc \in JsonSteps => mode = "json"
    /\ pc \in StreamSteps => mode = "stream"
    /\ EventOrder /\ EventsKnown /\ AnswerKnown /\ UpstreamKnown
    /\ SuccessIsGrounded
    /\ Succeeded => pc = "done"

-----------------------------------------------------------------------------
(* Answers and events                                                       *)

\* An empty text is not grounded.
LEMMA EmptyIsNotGrounded == ~Grounded(<<>>)
<1>1. ToSet(<<>>) = {}
  BY DEF ToSet
<1> QED
  BY <1>1 DEF Grounded, Verified, IsRefusal

\* The service's own wording is a refusal.
LEMMA RefusalIsGrounded == IsRefusal(<<Refusal>>)
<1>1. 1 \in DOMAIN <<Refusal>> /\ <<Refusal>>[1] = Refusal
  OBVIOUS
<1> QED
  BY <1>1 DEF IsRefusal, ToSet

\* What sending an event does to the list of events.
LEMMA SendAppends ==
  ASSUME events \in Seq(EventKinds), NEW e \in EventKinds, Send(e)
  PROVE  /\ events' \in Seq(EventKinds) /\ events' # <<>>
         /\ Len(events') = Len(events) + 1 /\ events'[Len(events')] = e
         /\ \A i \in 1 .. Len(events) : events'[i] = events[i]
         /\ \A kind : Sent(kind)' <=> Sent(kind) \/ kind = e
<1>1. events' = Append(events, e)
  BY DEF Send
<1>2. /\ events' \in Seq(EventKinds) /\ Len(events') = Len(events) + 1
      /\ \A i \in 1 .. Len(events) : events'[i] = events[i]
      /\ events'[Len(events) + 1] = e
  BY <1>1, AppendProperties
<1>3. DOMAIN events = 1 .. Len(events) /\ DOMAIN events' = 1 .. Len(events') /\ Len(events) \in Nat
  BY <1>2, LenProperties
<1>4. events' # <<>>
  BY <1>2, <1>3, EmptySeq
<1>5. ASSUME NEW kind PROVE Sent(kind)' <=> Sent(kind) \/ kind = e
  <2>1. \A i \in 1 .. Len(events) + 1 : i \in 1 .. Len(events) \/ i = Len(events) + 1
    BY <1>3
  <2> QED
    BY <1>2, <1>3, <2>1 DEF Sent
<1> QED
  BY <1>2, <1>3, <1>4, <1>5

\* An event that may follow the last one keeps the order.
LEMMA SendKeepsOrder ==
  ASSUME events \in Seq(EventKinds), EventOrder, UNCHANGED mode,
         NEW e \in EventKinds, Send(e),
         events = <<>> => e \in (IF mode = "stream" THEN {"refused", "start"}
                                                    ELSE {"refused", "answer", "error"}),
         events # <<>> => e \in MayFollow[events[Len(events)]]
  PROVE  EventOrder'
<1>1. /\ events' \in Seq(EventKinds) /\ events' # <<>>
      /\ Len(events') = Len(events) + 1 /\ events'[Len(events')] = e
      /\ \A i \in 1 .. Len(events) : events'[i] = events[i]
  BY SendAppends
<1>2. Len(events) \in Nat
  BY LenProperties
<1>3. CASE events = <<>>
  BY <1>1, <1>3 DEF EventOrder
<1>4. CASE events # <<>>
  <2>1. Len(events) > 0
    BY <1>2, <1>4, EmptySeq
  <2>2. events'[1] = events[1]
    BY <1>1, <1>2, <2>1
  <2>3. ASSUME NEW i \in 1 .. Len(events') - 1
        PROVE  events'[i + 1] \in MayFollow[events'[i]]
    <3>1. CASE i = Len(events)
      BY <1>1, <1>2, <1>4, <2>1, <3>1
    <3>2. CASE i # Len(events)
      <4>1. i \in 1 .. Len(events) - 1 /\ i + 1 \in 1 .. Len(events) /\ i \in 1 .. Len(events)
        BY <1>1, <1>2, <3>2
      <4> QED
        BY <1>1, <4>1 DEF EventOrder
    <3> QED
      BY <3>1, <3>2
  <2>4. MayFollow' = MayFollow
    BY DEF MayFollow
  <2> QED
    BY <1>1, <1>4, <2>2, <2>3, <2>4 DEF EventOrder
<1> QED
  BY <1>3, <1>4

\* A step that sends nothing and does not find the query answered.
LEMMA SilentStep ==
  ASSUME QueryInv, UNCHANGED <<events, mode>>, pc # "done"
  PROVE  /\ EventOrder' /\ SuccessIsGrounded' /\ ~Succeeded' /\ events' \in Seq(EventKinds)
         /\ \A kinds : LastIs(kinds)' <=> LastIs(kinds)
BY DEF QueryInv, EventOrder, MayFollow, SuccessIsGrounded, Succeeded, Sent, LastIs

\* The same answer is as grounded as before.
LEMMA SameAnswer ==
  ASSUME UNCHANGED <<sources, answer>>
  PROVE  Grounded(answer)' = Grounded(answer) /\ Verified(answer)' = Verified(answer)
BY DEF Grounded, Verified, IsRefusal

\* A step that sends an event which does not end a success.
LEMMA SendingStep ==
  ASSUME QueryInv, UNCHANGED mode, pc # "done",
         NEW e \in EventKinds \ {"answer", "done"}, Send(e),
         events = <<>> => e \in (IF mode = "stream" THEN {"refused", "start"}
                                                    ELSE {"refused", "answer", "error"}),
         events # <<>> => e \in MayFollow[events[Len(events)]]
  PROVE  /\ EventOrder' /\ SuccessIsGrounded' /\ ~Succeeded' /\ events' \in Seq(EventKinds)
         /\ LastIs({e})'
<1>1. /\ events' \in Seq(EventKinds) /\ events' # <<>> /\ events'[Len(events')] = e
      /\ \A kind : Sent(kind)' <=> Sent(kind) \/ kind = e
  BY SendAppends DEF QueryInv
<1>2. EventOrder'
  BY SendKeepsOrder DEF QueryInv
<1>3. ~Succeeded
  BY DEF QueryInv
<1>4. ~Succeeded'
  BY <1>1, <1>3 DEF Succeeded
<1> QED
  BY <1>1, <1>2, <1>4 DEF SuccessIsGrounded, LastIs

\* A step that sends an event which does.
LEMMA SucceedingStep ==
  ASSUME QueryInv, UNCHANGED mode, NEW e \in {"answer", "done"}, Send(e), pc' = "done",
         events = <<>> => e \in (IF mode = "stream" THEN {"refused", "start"}
                                                    ELSE {"refused", "answer", "error"}),
         events # <<>> => e \in MayFollow[events[Len(events)]],
         Grounded(answer)', cited' = Verified(answer)', upstream' # "none" => doneSeen',
         upstream' # "open"
  PROVE  QueryInv'
<1>1. e \in EventKinds
  BY DEF EventKinds
<1>2. events' \in Seq(EventKinds)
  BY <1>1, SendAppends DEF QueryInv
<1>3. EventOrder'
  BY <1>1, SendKeepsOrder DEF QueryInv
<1>4. SuccessIsGrounded'
  BY DEF SuccessIsGrounded
<1> QED
  BY <1>2, <1>3, <1>4
     DEF QueryInv, EventsKnown, AnswerKnown, UpstreamKnown, Silent, Answered,
         JsonSteps, StreamSteps, Steps

-----------------------------------------------------------------------------
(* Preparation                                                              *)

LEMMA InvPrepare == ASSUME QueryInv, Prepare PROVE QueryInv'
<1>1. CASE Match
  <2>1. pc = "idle" /\ pc' = "hydrate" /\ UNCHANGED <<mode, events, upstream>>
    BY <1>1 DEF Match, Goto
  <2> QED
    BY <2>1, SilentStep
       DEF QueryInv, EventsKnown, AnswerKnown, UpstreamKnown, Silent, Answered,
           JsonSteps, StreamSteps, Steps
<1>2. CASE Hydrate
  <2>1. /\ pc = "hydrate" /\ UNCHANGED <<mode, events, upstream>>
        /\ \/ mode = "json" /\ answer' = <<Refusal>> /\ pc' = "respond"
           \/ mode = "json" /\ pc' = "generate"
           \/ mode = "stream" /\ answer' = <<>> /\ pc' = "start"
    BY <1>2 DEF Hydrate, Goto, QueryInv
  <2>2. answer' = <<Refusal>> => Grounded(answer)'
    BY RefusalIsGrounded DEF Grounded, IsRefusal
  <2> QED
    BY <2>1, <2>2, SilentStep
       DEF QueryInv, EventsKnown, AnswerKnown, UpstreamKnown, Silent, Answered,
           JsonSteps, StreamSteps, Steps
<1>3. CASE Refuse
  <2>1. /\ pc \in {"idle", "hydrate"} /\ pc' = "done" /\ Send("refused")
        /\ UNCHANGED <<mode, upstream>> /\ events = <<>> /\ upstream = "none"
    BY <1>3 DEF Refuse, Goto, QueryInv, EventsKnown, UpstreamKnown, Silent
  <2>2. "refused" \in EventKinds \ {"answer", "done"}
    BY DEF EventKinds
  <2>3. EventOrder' /\ SuccessIsGrounded' /\ ~Succeeded' /\ events' \in Seq(EventKinds)
    BY <2>1, <2>2, SendingStep
  <2> QED
    BY <2>1, <2>3
       DEF QueryInv, EventsKnown, AnswerKnown, UpstreamKnown, Silent, Answered,
           JsonSteps, StreamSteps, Steps
<1> QED
  BY <1>1, <1>2, <1>3 DEF Prepare

-----------------------------------------------------------------------------
(* POST /query                                                              *)

LEMMA InvAnswer == ASSUME QueryInv, Answer PROVE QueryInv'
<1>1. CASE Generate
  <2>1. PICK text \in Texts \ {<<>>} : answer' = text /\ pc' = AfterAttempt(Grounded(text))
    BY <1>1 DEF Generate, Goto
  <2>2. pc \in {"generate", "repair"} /\ UNCHANGED <<mode, events, upstream, sources>>
    BY <1>1 DEF Generate
  <2>3. pc' \in {"respond", "repair", "fail"} /\ (pc' = "respond" => Grounded(text))
    BY <2>1 DEF AfterAttempt
  <2>4. Grounded(answer)' <=> Grounded(text)
    BY <2>1, <2>2 DEF Grounded, Verified, IsRefusal
  <2> QED
    BY <2>2, <2>3, <2>4, SilentStep
       DEF QueryInv, EventsKnown, AnswerKnown, UpstreamKnown, Silent, Answered,
           JsonSteps, StreamSteps, Steps
<1>2. CASE GenerateFails
  <2>1. pc \in {"generate", "repair"} /\ pc' = "fail" /\ UNCHANGED <<mode, events, upstream>>
    BY <1>2 DEF GenerateFails, Goto
  <2> QED
    BY <2>1, SilentStep
       DEF QueryInv, EventsKnown, AnswerKnown, UpstreamKnown, Silent, Answered,
           JsonSteps, StreamSteps, Steps
<1>3. CASE Respond
  <2>1. /\ pc = "respond" /\ pc' = "done" /\ Send("answer") /\ cited' = Verified(answer)
        /\ UNCHANGED <<mode, upstream, sources, answer>>
    BY <1>3 DEF Respond, Goto
  <2>2. mode = "json" /\ events = <<>> /\ upstream = "none" /\ Grounded(answer)
    BY <2>1 DEF QueryInv, EventsKnown, UpstreamKnown, AnswerKnown, Silent, JsonSteps
  <2>3. Grounded(answer)' /\ cited' = Verified(answer)'
    BY <2>1, <2>2, SameAnswer
  <2> QED
    BY <2>1, <2>2, <2>3, SucceedingStep
<1>4. CASE RespondUnavailable
  <2>1. pc = "fail" /\ pc' = "done" /\ Send("error") /\ UNCHANGED <<mode, upstream>>
    BY <1>4 DEF RespondUnavailable, Goto
  <2>2. mode = "json" /\ events = <<>> /\ upstream = "none"
    BY <2>1 DEF QueryInv, EventsKnown, UpstreamKnown, Silent, JsonSteps
  <2>3. "error" \in EventKinds \ {"answer", "done"}
    BY DEF EventKinds
  <2>4. EventOrder' /\ SuccessIsGrounded' /\ ~Succeeded' /\ events' \in Seq(EventKinds)
    BY <2>1, <2>2, <2>3, SendingStep
  <2> QED
    BY <2>1, <2>2, <2>4
       DEF QueryInv, EventsKnown, AnswerKnown, UpstreamKnown, Silent, Answered,
           JsonSteps, StreamSteps, Steps
<1> QED
  BY <1>1, <1>2, <1>3, <1>4 DEF Answer

-----------------------------------------------------------------------------
(* POST /query/stream                                                       *)

LEMMA InvStreamOpens ==
  ASSUME QueryInv, SendStart \/ CheckClient \/ SendRefusal PROVE QueryInv'
<1>1. CASE SendStart
  <2>1. /\ pc = "start" /\ pc' = "check" /\ Send("start")
        /\ UNCHANGED <<mode, upstream, answer>>
    BY <1>1 DEF SendStart, Goto, queryVars
  <2>2. mode = "stream" /\ events = <<>> /\ upstream = "none"
    BY <2>1 DEF QueryInv, EventsKnown, UpstreamKnown, Silent, StreamSteps
  <2>3. "start" \in EventKinds \ {"answer", "done"}
    BY DEF EventKinds
  <2>4. /\ EventOrder' /\ SuccessIsGrounded' /\ ~Succeeded' /\ events' \in Seq(EventKinds)
        /\ LastIs({"start"})'
    BY <2>1, <2>2, <2>3, SendingStep
  <2> QED
    BY <2>1, <2>2, <2>4
       DEF QueryInv, EventsKnown, AnswerKnown, UpstreamKnown, Silent, Answered,
           JsonSteps, StreamSteps, Steps
<1>2. CASE CheckClient
  <2>1. /\ pc = "check" /\ UNCHANGED <<mode, events, answer>>
        /\ \/ upstream' = "open" /\ pc' = "stream"
           \/ UNCHANGED upstream /\ pc' \in {"refuse", "done"}
    BY <1>2 DEF CheckClient, Goto, queryVars
  <2>2. LastIs({"start"}) /\ mode = "stream" /\ upstream = "none"
    BY <2>1 DEF QueryInv, EventsKnown, UpstreamKnown, StreamSteps
  <2>3. answer' = <<>>
    BY <2>1 DEF QueryInv, EventsKnown
  <2>4. LastIs({"start", "token"})
    BY <2>2 DEF LastIs
  <2> QED
    BY <2>1, <2>2, <2>3, <2>4, SilentStep
       DEF QueryInv, EventsKnown, AnswerKnown, UpstreamKnown, Silent, Answered,
           JsonSteps, StreamSteps, Steps
<1>3. CASE SendRefusal
  <2>1. /\ pc = "refuse" /\ pc' = "citations" /\ Send("token") /\ answer' = <<Refusal>>
        /\ UNCHANGED <<mode, upstream>>
    BY <1>3 DEF SendRefusal, Goto
  <2>2. mode = "stream" /\ LastIs({"start"}) /\ upstream = "none"
    BY <2>1 DEF QueryInv, EventsKnown, UpstreamKnown, StreamSteps
  <2>3. Grounded(answer)'
    BY <2>1, RefusalIsGrounded DEF Grounded, IsRefusal
  <2>4. "token" \in EventKinds \ {"answer", "done"} /\ "token" \in MayFollow["start"]
    BY DEF EventKinds, MayFollow
  <2>5. /\ EventOrder' /\ SuccessIsGrounded' /\ ~Succeeded' /\ events' \in Seq(EventKinds)
        /\ LastIs({"token"})'
    BY <2>1, <2>2, <2>4, SendingStep DEF LastIs
  <2> QED
    BY <2>1, <2>2, <2>3, <2>5
       DEF QueryInv, EventsKnown, AnswerKnown, UpstreamKnown, Silent, Answered,
           JsonSteps, StreamSteps, Steps
<1> QED
  BY <1>1, <1>2, <1>3

LEMMA InvStreamTokens ==
  ASSUME QueryInv, StreamToken \/ StreamEnds \/ StreamFails PROVE QueryInv'
<1>1. CASE StreamToken /\ connected
  <2>1. pc = "stream" /\ pc' = "stream" /\ Send("token") /\ UNCHANGED <<mode, upstream>>
    BY <1>1 DEF StreamToken
  <2>2. mode = "stream" /\ LastIs({"start", "token"})
    BY <2>1 DEF QueryInv, EventsKnown, StreamSteps
  <2>3. /\ "token" \in EventKinds \ {"answer", "done"}
        /\ \A kind \in {"start", "token"} : "token" \in MayFollow[kind]
    BY DEF EventKinds, MayFollow
  <2>4. /\ EventOrder' /\ SuccessIsGrounded' /\ ~Succeeded' /\ events' \in Seq(EventKinds)
        /\ LastIs({"token"})'
    BY <2>1, <2>2, <2>3, SendingStep DEF LastIs
  <2>5. LastIs({"start", "token"})'
    BY <2>4 DEF LastIs
  <2> QED
    BY <2>1, <2>2, <2>4, <2>5
       DEF QueryInv, EventsKnown, AnswerKnown, UpstreamKnown, Silent, Answered,
           JsonSteps, StreamSteps, Steps
<1>2. CASE StreamToken /\ ~connected
  <2>1. pc = "stream" /\ pc' = "close" /\ UNCHANGED <<mode, upstream, events>>
    BY <1>2 DEF StreamToken, Goto
  <2> QED
    BY <2>1, SilentStep
       DEF QueryInv, EventsKnown, AnswerKnown, UpstreamKnown, Silent, Answered,
           JsonSteps, StreamSteps, Steps
<1>3. CASE StreamEnds
  <2>1. /\ pc = "stream" /\ upstream' = "closed" /\ UNCHANGED <<mode, events, answer>>
        /\ \E complete \in BOOLEAN : doneSeen' = complete /\ pc' = AfterBody(complete)
    BY <1>3 DEF StreamEnds, Goto, queryVars
  <2>2. pc' \in {"validate", "error"} /\ (pc' = "validate" => doneSeen')
    BY <2>1 DEF AfterBody
  <2> QED
    BY <2>1, <2>2, SilentStep
       DEF QueryInv, EventsKnown, AnswerKnown, UpstreamKnown, Silent, Answered,
           JsonSteps, StreamSteps, Steps
<1>4. CASE StreamFails
  <2>1. pc = "stream" /\ pc' = "error" /\ upstream' = "closed" /\ UNCHANGED <<mode, events>>
    BY <1>4 DEF StreamFails, Goto
  <2> QED
    BY <2>1, SilentStep
       DEF QueryInv, EventsKnown, AnswerKnown, UpstreamKnown, Silent, Answered,
           JsonSteps, StreamSteps, Steps
<1> QED
  BY <1>1, <1>2, <1>3, <1>4

LEMMA InvStreamEnds ==
  ASSUME QueryInv, SendError \/ Cancel \/ Close \/ Validate PROVE QueryInv'
<1>1. /\ "error" \in EventKinds \ {"answer", "done"}
      /\ \A kind \in {"start", "token"} : "error" \in MayFollow[kind]
  BY DEF EventKinds, MayFollow
<1>2. CASE SendError
  <2>1. /\ pc = "error" /\ pc' = "done" /\ UNCHANGED <<mode, upstream>>
        /\ Send("error") \/ UNCHANGED events
    BY <1>2 DEF SendError, Goto
  <2>2. LastIs({"start", "token"}) /\ upstream # "open"
    BY <2>1 DEF QueryInv, EventsKnown, UpstreamKnown
  <2>3. EventOrder' /\ SuccessIsGrounded' /\ ~Succeeded' /\ events' \in Seq(EventKinds)
    BY <1>1, <2>1, <2>2, SilentStep, SendingStep DEF LastIs
  <2> QED
    BY <2>1, <2>2, <2>3
       DEF QueryInv, EventsKnown, AnswerKnown, UpstreamKnown, Silent, Answered,
           JsonSteps, StreamSteps, Steps
<1>3. CASE Cancel
  <2>1. /\ pc \in StreamSteps \ {"close"} /\ UNCHANGED <<mode, upstream, events>>
        /\ pc' = IF pc = "stream" THEN "close" ELSE "done"
    BY <1>3 DEF Cancel, Goto
  <2>2. pc # "done"
    BY <2>1 DEF StreamSteps
  <2> QED
    BY <2>1, <2>2, SilentStep
       DEF QueryInv, EventsKnown, AnswerKnown, UpstreamKnown, Silent, Answered,
           JsonSteps, StreamSteps, Steps
<1>4. CASE Close
  <2>1. pc = "close" /\ pc' = "done" /\ upstream' = "closed" /\ UNCHANGED <<mode, events>>
    BY <1>4 DEF Close, CloseUpstream, Goto
  <2> QED
    BY <2>1, SilentStep
       DEF QueryInv, EventsKnown, AnswerKnown, UpstreamKnown, Silent, Answered,
           JsonSteps, StreamSteps, Steps
<1>5. CASE Validate /\ Grounded(answer)
  <2>1. /\ pc = "validate" /\ pc' = "citations"
        /\ UNCHANGED <<mode, events, upstream, doneSeen, sources, answer>>
    BY <1>5 DEF Validate, AfterValidation, Goto, queryVars
  <2>2. LastIs({"token"}) /\ upstream # "open" /\ (upstream # "none" => doneSeen)
    BY <1>5, <2>1, EmptyIsNotGrounded DEF QueryInv, EventsKnown, AnswerKnown, UpstreamKnown
  <2>3. Grounded(answer)'
    BY <1>5, <2>1, SameAnswer
  <2> QED
    BY <2>1, <2>2, <2>3, SilentStep
       DEF QueryInv, EventsKnown, AnswerKnown, UpstreamKnown, Silent, Answered,
           JsonSteps, StreamSteps, Steps
<1>6. CASE Validate /\ ~Grounded(answer)
  <2>1. pc = "validate" /\ pc' = "done" /\ Send("error") /\ UNCHANGED <<mode, upstream>>
    BY <1>6 DEF Validate, AfterValidation, Goto
  <2>2. LastIs({"start", "token"}) /\ upstream # "open"
    BY <2>1 DEF QueryInv, EventsKnown, UpstreamKnown
  <2>3. EventOrder' /\ SuccessIsGrounded' /\ ~Succeeded' /\ events' \in Seq(EventKinds)
    BY <1>1, <2>1, <2>2, SendingStep DEF LastIs
  <2> QED
    BY <2>1, <2>2, <2>3
       DEF QueryInv, EventsKnown, AnswerKnown, UpstreamKnown, Silent, Answered,
           JsonSteps, StreamSteps, Steps
<1> QED
  BY <1>2, <1>3, <1>4, <1>5, <1>6

LEMMA InvStreamSucceeds ==
  ASSUME QueryInv, SendCitations \/ SendMetadata \/ SendDone PROVE QueryInv'
<1>1. /\ {"citations", "metadata"} \subseteq EventKinds \ {"answer", "done"}
      /\ "citations" \in MayFollow["token"] /\ "metadata" \in MayFollow["citations"]
      /\ "done" \in MayFollow["metadata"]
  BY DEF EventKinds, MayFollow
<1>2. /\ pc \in Answered => /\ mode = "stream" /\ upstream # "open" /\ Grounded(answer)
                            /\ upstream # "none" => doneSeen
  BY DEF QueryInv, AnswerKnown, UpstreamKnown, Answered, StreamSteps
<1>3. CASE SendCitations
  <2>1. /\ pc = "citations" /\ pc' = "metadata" /\ Send("citations") /\ cited' = Verified(answer)
        /\ UNCHANGED <<mode, upstream, doneSeen, sources, answer>>
    BY <1>3 DEF SendCitations, Goto
  <2>2. LastIs({"token"})
    BY <2>1 DEF QueryInv, EventsKnown
  <2>3. /\ EventOrder' /\ SuccessIsGrounded' /\ ~Succeeded' /\ events' \in Seq(EventKinds)
        /\ LastIs({"citations"})'
    BY <1>1, <2>1, <2>2, SendingStep DEF LastIs
  <2>4. Grounded(answer)' /\ cited' = Verified(answer)'
    BY <1>2, <2>1, SameAnswer DEF Answered
  <2> QED
    BY <1>2, <2>1, <2>3, <2>4
       DEF QueryInv, EventsKnown, AnswerKnown, UpstreamKnown, Silent, Answered,
           JsonSteps, StreamSteps, Steps
<1>4. CASE SendMetadata
  <2>1. /\ pc = "metadata" /\ pc' = "finish" /\ Send("metadata")
        /\ UNCHANGED <<mode, upstream, doneSeen, sources, answer, cited>>
    BY <1>4 DEF SendMetadata, Goto, queryVars
  <2>2. LastIs({"citations"}) /\ cited = Verified(answer)
    BY <2>1 DEF QueryInv, EventsKnown, AnswerKnown
  <2>3. /\ EventOrder' /\ SuccessIsGrounded' /\ ~Succeeded' /\ events' \in Seq(EventKinds)
        /\ LastIs({"metadata"})'
    BY <1>1, <2>1, <2>2, SendingStep DEF LastIs
  <2>4. Grounded(answer)' /\ cited' = Verified(answer)'
    BY <1>2, <2>1, <2>2, SameAnswer DEF Answered
  <2> QED
    BY <1>2, <2>1, <2>3, <2>4
       DEF QueryInv, EventsKnown, AnswerKnown, UpstreamKnown, Silent, Answered,
           JsonSteps, StreamSteps, Steps
<1>5. CASE SendDone
  <2>1. /\ pc = "finish" /\ pc' = "done" /\ Send("done")
        /\ UNCHANGED <<mode, upstream, doneSeen, sources, answer, cited>>
    BY <1>5 DEF SendDone, Goto, queryVars
  <2>2. LastIs({"metadata"}) /\ cited = Verified(answer)
    BY <2>1 DEF QueryInv, EventsKnown, AnswerKnown
  <2>3. Grounded(answer)' /\ cited' = Verified(answer)'
    BY <1>2, <2>1, <2>2, SameAnswer DEF Answered
  <2> QED
    BY <1>1, <1>2, <2>1, <2>2, <2>3, SucceedingStep DEF LastIs, Answered
<1> QED
  BY <1>3, <1>4, <1>5

-----------------------------------------------------------------------------

\* Deletions, disconnects and stuttering touch nothing of the invariant.
LEMMA InvSame ==
  ASSUME QueryInv, UNCHANGED <<mode, pc, events, upstream, doneSeen, sources, answer, cited>>
  PROVE  QueryInv'
<1>1. Grounded(answer)' = Grounded(answer) /\ Verified(answer)' = Verified(answer)
  BY SameAnswer
<1>2. (\A kind : Sent(kind)' <=> Sent(kind)) /\ (\A kinds : LastIs(kinds)' <=> LastIs(kinds))
  BY DEF Sent, LastIs
<1>3. EventOrder'
  BY DEF QueryInv, EventOrder, MayFollow
<1>4. SuccessIsGrounded' /\ (Succeeded' <=> Succeeded)
  BY <1>1, <1>2 DEF QueryInv, SuccessIsGrounded, Succeeded
<1> QED
  BY <1>1, <1>2, <1>3, <1>4
       DEF QueryInv, EventsKnown, AnswerKnown, UpstreamKnown, Silent, Answered,
           JsonSteps, StreamSteps, Steps

LEMMA QueryInvCorrect == Spec => []QueryInv
<1>1. Init => QueryInv
  <2> SUFFICES ASSUME Init PROVE QueryInv
    OBVIOUS
  <2>1. events = <<>> /\ pc = "idle" /\ upstream = "none" /\ mode \in {"json", "stream"}
    BY DEF Init
  <2>2. EventOrder /\ ~Succeeded /\ SuccessIsGrounded
    BY <2>1 DEF EventOrder, Succeeded, Sent, SuccessIsGrounded
  <2> QED
    BY <2>1, <2>2
       DEF QueryInv, EventsKnown, AnswerKnown, UpstreamKnown, Silent, Answered,
           JsonSteps, StreamSteps, Steps
<1>2. QueryInv /\ [Next]_vars => QueryInv'
  <2> SUFFICES ASSUME QueryInv, [Next]_vars PROVE QueryInv'
    OBVIOUS
  <2>1. CASE Prepare
    BY <2>1, InvPrepare
  <2>2. CASE Answer
    BY <2>2, InvAnswer
  <2>3. CASE Stream
    BY <2>3, InvStreamOpens, InvStreamTokens, InvStreamEnds, InvStreamSucceeds DEF Stream
  <2>4. ASSUME NEW c \in Chunks, DeleteChunk(c) PROVE QueryInv'
    BY <2>4, InvSame DEF DeleteChunk, queryVars
  <2>5. CASE Disconnect
    BY <2>5, InvSame DEF Disconnect, queryVars
  <2>6. CASE UNCHANGED vars
    BY <2>6, InvSame DEF vars, queryVars
  <2> QED
    BY <2>1, <2>2, <2>3, <2>4, <2>5, <2>6 DEF Next, Finished
<1> QED
  BY <1>1, <1>2, PTL DEF Spec

\* Events come in order and end with the first done, error, answer or refusal,
\* whenever the model fails and the client goes away.
THEOREM EventsInOrder == Spec => []EventOrder
<1>1. QueryInv => EventOrder
  BY DEF QueryInv
<1> QED
  BY <1>1, QueryInvCorrect, PTL

\* Only a whole answer that cites a source of its context, or says that the context
\* is insufficient, ends well, on both endpoints.
THEOREM SuccessesAreGrounded == Spec => []SuccessIsGrounded
<1>1. QueryInv => SuccessIsGrounded
  BY DEF QueryInv
<1> QED
  BY <1>1, QueryInvCorrect, PTL

\* Whichever way a stream ends, the response of Ollama has been released.
THEOREM UpstreamIsReleased == Spec => []UpstreamReleased
<1>1. QueryInv => UpstreamReleased
  BY DEF QueryInv, UpstreamKnown, UpstreamReleased
<1> QED
  BY <1>1, QueryInvCorrect, PTL

-----------------------------------------------------------------------------
(* Candidates, rows and the context                                         *)

LEMMA CandidatesAre ==
  ASSUME NEW s
  PROVE  s \in CandidateLists <=> s \in Seq(Chunks) /\ Len(s) <= K /\ Distinct(s)
<1>1. K \in Nat
  BY BoundsAssumption
<1>2. BoundedSeq(Chunks, K) = UNION {[1 .. m -> Chunks] : m \in 0 .. K}
  BY DEF BoundedSeq, SeqOf
<1>3. ASSUME s \in BoundedSeq(Chunks, K) PROVE s \in Seq(Chunks) /\ Len(s) <= K
  <2>1. PICK m \in 0 .. K : s \in [1 .. m -> Chunks]
    BY <1>2, <1>3
  <2>2. s \in Seq(Chunks) /\ Len(s) = m
    BY <1>1, <2>1
  <2> QED
    BY <2>1, <2>2
<1>4. ASSUME s \in Seq(Chunks), Len(s) <= K PROVE s \in BoundedSeq(Chunks, K)
  <2>1. Len(s) \in 0 .. K /\ s \in [1 .. Len(s) -> Chunks]
    BY <1>1, <1>4, LenProperties
  <2> QED
    BY <1>2, <2>1
<1>5. ASSUME s \in Seq(Chunks) PROVE IsInjective(s) <=> Distinct(s)
  BY <1>5, LenProperties DEF IsInjective, Distinct
<1> QED
  BY <1>3, <1>4, <1>5 DEF CandidateLists

\* Skipping rows leaves a list of candidates.
LEMMA KeptCandidates ==
  ASSUME NEW list \in CandidateLists, NEW S
  PROVE  /\ Kept(list, S) \in CandidateLists
         /\ \A i \in 1 .. Len(Kept(list, S)) :
               Kept(list, S)[i] \in S /\ \E j \in 1 .. Len(list) : Kept(list, S)[i] = list[j]
<1>1. list \in Seq(Chunks) /\ Len(list) <= K /\ Distinct(list) /\ K \in Nat
  BY CandidatesAre, BoundsAssumption
<1>2. Kept(list, S) \in Seq(Chunks) /\ KeptOf(Kept(list, S), list, S, Len(list))
  BY <1>1, KeptIs
<1>3. Len(Kept(list, S)) \in Nat /\ Len(list) \in Nat
  BY <1>1, <1>2
<1> QED
  BY <1>1, <1>2, <1>3, CandidatesAre DEF KeptOf

\* Sums that differ by a separator before each value but the first.
LEMMA TotalSeparated ==
  ASSUME NEW a \in Seq(Nat), NEW b \in Seq(Nat), Len(a) = Len(b), Len(a) > 0,
         \A i \in 1 .. Len(a) : b[i] = (IF i = 1 THEN 0 ELSE 2) + a[i]
  PROVE  Total(b) = Total(a) + 2 * (Len(a) - 1)
<1>1. PICK f, g : f = TotalAfter(a) /\ g = TotalAfter(b)
  OBVIOUS
<1>2. /\ Total(a) = f[Len(a)] /\ f[0] = 0
      /\ \A n \in 1 .. Len(a) : f[n] = f[n - 1] + a[n] /\ f[n - 1] \in Nat
      /\ Total(b) = g[Len(a)] /\ g[0] = 0
      /\ \A n \in 1 .. Len(a) : g[n] = g[n - 1] + b[n] /\ g[n - 1] \in Nat
  BY <1>1, TotalUnfolds
<1>3. Len(a) \in Nat /\ \A n \in 1 .. Len(a) : a[n] \in Nat
  OBVIOUS
<1> DEFINE P == {n \in Nat : n + 1 <= Len(a) => g[n + 1] = f[n + 1] + 2 * n}
<1>4. 0 \in P
  <2>1. 1 \in 1 .. Len(a) /\ a[1] \in Nat
    BY <1>3
  <2>2. f[1] = f[1 - 1] + a[1] /\ g[1] = g[1 - 1] + b[1] /\ b[1] = a[1]
    BY <1>2, <2>1
  <2> QED
    BY <1>2, <2>1, <2>2
<1>5. ASSUME NEW n \in Nat, n \in P PROVE n + 1 \in P
  <2> SUFFICES ASSUME n + 2 <= Len(a) PROVE g[n + 2] = f[n + 2] + 2 * (n + 1)
    BY <1>3
  <2>1. n + 2 \in 1 .. Len(a) /\ (n + 2) - 1 = n + 1 /\ n + 2 # 1 /\ n + 1 <= Len(a)
    BY <1>3
  <2>2. /\ f[n + 2] = f[n + 1] + a[n + 2] /\ g[n + 2] = g[n + 1] + b[n + 2]
        /\ f[n + 1] \in Nat /\ g[n + 1] \in Nat
    BY <1>2, <2>1
  <2>3. b[n + 2] = 2 + a[n + 2] /\ a[n + 2] \in Nat /\ g[n + 1] = f[n + 1] + 2 * n
    BY <1>3, <1>5, <2>1
  <2>4. \A x, v, k \in Nat : (x + 2 * k) + (2 + v) = (x + v) + 2 * (k + 1)
    OBVIOUS
  <2>5. (f[n + 1] + 2 * n) + (2 + a[n + 2]) = (f[n + 1] + a[n + 2]) + 2 * (n + 1)
    BY <2>2, <2>3, <2>4
  <2> QED
    BY <2>2, <2>3, <2>5
<1>6. Nat \subseteq P
  <2> HIDE DEF P
  <2> QED
    BY <1>4, <1>5, SetInduction
<1>7. Len(a) - 1 \in P
  <2> HIDE DEF P
  <2> QED
    BY <1>3, <1>6
<1>8. (Len(a) - 1) + 1 = Len(a) /\ Len(a) <= Len(a)
  BY <1>3
<1>9. g[Len(a)] = f[Len(a)] + 2 * (Len(a) - 1)
  BY <1>7, <1>8
<1> QED
  BY <1>2, <1>9

\* The characters counted for a context are those of the rendered context.
LEMMA CountedIsRendered ==
  ASSUME NEW blocks \in Seq(Chunks), blocks # <<>>
  PROVE  UsedChars(blocks, Len(blocks)) = ContextLength(blocks)
<1>1. /\ Len(blocks) \in Nat /\ Len(blocks) > 0
      /\ \A m \in 1 .. Len(blocks) : Length[blocks[m]] \in Nat
  BY EmptySeq, LengthAssumption
<1> DEFINE a == [m \in 1 .. Len(blocks) |-> Length[blocks[m]]]
           b == [m \in 1 .. Len(blocks) |-> (IF m = 1 THEN 0 ELSE 2) + Length[blocks[m]]]
<1>2. /\ a \in Seq(Nat) /\ b \in Seq(Nat) /\ Len(a) = Len(blocks) /\ Len(b) = Len(blocks)
      /\ \A i \in 1 .. Len(a) : b[i] = (IF i = 1 THEN 0 ELSE 2) + a[i]
  <2>1. a \in [1 .. Len(blocks) -> Nat] /\ b \in [1 .. Len(blocks) -> Nat]
    BY <1>1
  <2>2. \A i \in 1 .. Len(blocks) : b[i] = (IF i = 1 THEN 0 ELSE 2) + a[i]
    OBVIOUS
  <2> HIDE DEF a, b
  <2>3. a \in Seq(Nat) /\ b \in Seq(Nat) /\ Len(a) = Len(blocks) /\ Len(b) = Len(blocks)
    BY <1>1, <2>1, ListOf
  <2> QED
    BY <2>2, <2>3
<1>3. UsedChars(blocks, Len(blocks)) = Total(b)
  BY DEF UsedChars
<1>4. ContextLength(blocks) = Total(a) + 2 * (Len(blocks) - 1)
  BY DEF ContextLength
<1> HIDE DEF a, b
<1> QED
  BY <1>1, <1>2, <1>3, <1>4, TotalSeparated

\* The context is a prefix of the rows that fits its budgets.
LEMMA ContextSelected ==
  ASSUME NEW blocks \in CandidateLists
  PROVE  /\ SelectContext(blocks) \in CandidateLists
         /\ Len(SelectContext(blocks)) <= MaxContextChunks
         /\ ContextLength(SelectContext(blocks)) <= MaxContextChars
         /\ \A i \in 1 .. Len(SelectContext(blocks)) :
               i \in 1 .. Len(blocks) /\ SelectContext(blocks)[i] = blocks[i]
<1> DEFINE Fits(n) == n <= MaxContextChunks /\ UsedChars(blocks, n) <= MaxContextChars
           FittingCounts == {n \in 0 .. Len(blocks) : \A m \in 1 .. n : Fits(m)}
<1>1. /\ blocks \in Seq(Chunks) /\ Len(blocks) <= K /\ Distinct(blocks)
      /\ Len(blocks) \in Nat /\ K \in Nat /\ MaxContextChunks \in Nat /\ MaxContextChars \in Nat
  BY CandidatesAre, BoundsAssumption
<1>2. PICK n \in FittingCounts : n = Max(FittingCounts)
  <2>1. FittingCounts \in SUBSET Nat /\ 0 \in FittingCounts /\ \A m \in FittingCounts : m <= Len(blocks)
    BY <1>1
  <2> HIDE DEF FittingCounts
  <2>2. PICK n \in FittingCounts : \A m \in FittingCounts : m <= n
    BY <1>1, <2>1, Greatest
  <2>3. n \in FittingCounts /\ \A m \in FittingCounts : n >= m
    BY <2>1, <2>2
  <2>4. Max(FittingCounts) \in FittingCounts
    BY <2>3 DEF Max
  <2> QED
    BY <2>4
<1>3. n \in 0 .. Len(blocks) /\ (n > 0 => Fits(n))
  BY <1>1, <1>2
<1>4. PICK context : context = SubSeq(blocks, 1, n)
  OBVIOUS
<1>5. SelectContext(blocks) = context
  BY <1>2, <1>4 DEF SelectContext
<1>6. /\ context \in Seq(Chunks) /\ Len(context) = n
      /\ \A i \in 1 .. n : i \in 1 .. Len(blocks) /\ context[i] = blocks[i]
  <2>1. context \in Seq(Chunks) /\ Len(context) = n
    BY <1>1, <1>3, <1>4
  <2>2. \A i \in 1 .. n : context[i] = blocks[i]
    BY <1>1, <1>3, <1>4
  <2> QED
    BY <1>1, <1>3, <2>1, <2>2
<1>7. context \in CandidateLists
  BY <1>1, <1>3, <1>6, CandidatesAre DEF Distinct
<1>8. ContextLength(context) <= MaxContextChars
  <2>1. CASE n = 0
    BY <1>1, <1>6, <2>1, EmptySeq DEF ContextLength
  <2>2. CASE n > 0
    <3>1. context # <<>>
      BY <1>6, <2>2
    <3>2. UsedChars(context, n) = ContextLength(context)
      BY <1>6, <3>1, CountedIsRendered
    <3>3. UsedChars(context, n) = UsedChars(blocks, n)
      <4>1. [m \in 1 .. n |-> (IF m = 1 THEN 0 ELSE 2) + Length[context[m]]]
              = [m \in 1 .. n |-> (IF m = 1 THEN 0 ELSE 2) + Length[blocks[m]]]
        BY <1>6
      <4> QED
        BY <4>1 DEF UsedChars
    <3> QED
      BY <1>3, <2>2, <3>2, <3>3
  <2> QED
    BY <1>3, <2>1, <2>2
<1>9. n <= MaxContextChunks
  BY <1>1, <1>3
<1> QED
  BY <1>5, <1>6, <1>7, <1>8, <1>9

-----------------------------------------------------------------------------
(* The context of a query                                                   *)

\* What is deleted before the query began is not active again, and the sources were
\* active when the query was prepared.
ContextInv ==
    /\ active \subseteq Chunks /\ goneBefore \subseteq Chunks \ active
    /\ hits \in CandidateLists /\ sources \in CandidateLists
    /\ \A i \in 1 .. Len(sources) : sources[i] \notin goneBefore
    /\ cited \subseteq 1 .. Len(sources)
    /\ pc \in {"idle", "hydrate"} => sources = <<>> /\ cited = {}
    /\ pc = "idle" => goneBefore = {}
    /\ ContextFits

\* The rest of the types.
StreamTypes == /\ answer \in Texts
               /\ connected \in BOOLEAN /\ doneSeen \in BOOLEAN
               /\ upstream \in {"none", "open", "closed"}

LEMMA EmptyContext ==
  /\ <<>> \in CandidateLists /\ Len(<<>>) = 0
  /\ 0 <= MaxContextChunks /\ ContextLength(<<>>) <= MaxContextChars
<1>1. Distinct(<<>>) /\ K \in Nat /\ MaxContextChars \in Nat /\ MaxContextChunks \in Nat
  BY BoundsAssumption DEF Distinct
<1>2. <<>> \in Seq(Chunks) /\ Len(<<>>) <= K
  BY <1>1
<1>3. <<>> \in CandidateLists
  BY <1>1, <1>2, CandidatesAre
<1>4. ContextLength(<<>>) = 0
  BY DEF ContextLength
<1> QED
  BY <1>1, <1>3, <1>4

LEMMA ContextInit == Init => ContextInv /\ StreamTypes
<1> SUFFICES ASSUME Init PROVE ContextInv /\ StreamTypes
  OBVIOUS
<1>1. <<>> \in Texts
  BY TokensAssumption DEF Texts, BoundedSeq, SeqOf
<1> QED
  BY <1>1, EmptyContext DEF Init, ContextInv, StreamTypes, ContextFits

LEMMA SameContext ==
  ASSUME ContextInv, UNCHANGED <<hits, sources, goneBefore>>, active' \subseteq active,
         cited' \in {cited, Verified(answer)}, pc \notin {"idle", "hydrate"},
         pc' \notin {"idle", "hydrate"}
  PROVE  ContextInv'
<1>1. Verified(answer) \subseteq 1 .. Len(sources)
  BY DEF Verified
<1>2. ContextFits'
  BY DEF ContextInv, ContextFits
<1>3. cited' \subseteq 1 .. Len(sources')
  BY <1>1 DEF ContextInv
<1> QED
  BY <1>2, <1>3 DEF ContextInv

LEMMA ContextHydrate ==
  ASSUME ContextInv, Hydrate PROVE ContextInv'
<1>1. PICK rows : rows = Hydrated(hits)
  OBVIOUS
<1>2. PICK blocks : blocks = Sanitized(rows)
  OBVIOUS
<1>3. PICK context : context = SelectContext(blocks)
  OBVIOUS
<1>4. /\ pc = "hydrate" /\ hits' = rows /\ sources' = context
      /\ UNCHANGED <<active, goneBefore, cited>> /\ pc' \notin {"idle", "hydrate"}
  BY <1>1, <1>2, <1>3 DEF Hydrate, Goto
<1>5. rows \in CandidateLists /\ \A i \in 1 .. Len(rows) : rows[i] \in active
  BY <1>1, KeptCandidates DEF Hydrated, ContextInv
<1>6. blocks \in CandidateLists /\ \A i \in 1 .. Len(blocks) : blocks[i] \in active
  BY <1>2, <1>5, KeptCandidates DEF Sanitized
<1>7. /\ context \in CandidateLists /\ Len(context) <= MaxContextChunks
      /\ ContextLength(context) <= MaxContextChars
      /\ \A i \in 1 .. Len(context) : context[i] \in active
  BY <1>3, <1>6, ContextSelected
<1>8. ContextFits'
  BY <1>4, <1>7 DEF ContextFits
<1>9. cited = {} /\ goneBefore \cap active = {}
  BY <1>4 DEF ContextInv
<1> QED
  BY <1>4, <1>5, <1>7, <1>8, <1>9 DEF ContextInv

LEMMA ContextStep == ASSUME ContextInv, [Next]_vars PROVE ContextInv'
<1>1. CASE Match
  <2>1. /\ hits' \in CandidateLists /\ goneBefore' = Chunks \ active /\ pc' = "hydrate" /\ pc = "idle"
        /\ UNCHANGED <<active, sources, cited>>
    BY <1>1 DEF Match, Goto
  <2>2. ContextFits'
    BY <2>1 DEF ContextInv, ContextFits
  <2>3. sources' = <<>>
    BY <2>1 DEF ContextInv
  <2> QED
    BY <2>1, <2>2, <2>3 DEF ContextInv
<1>2. CASE Hydrate
  BY <1>2, ContextHydrate
<1>3. CASE Refuse \/ (\E c \in Chunks : DeleteChunk(c)) \/ Disconnect \/ UNCHANGED vars
  <2>1. /\ UNCHANGED <<hits, sources, goneBefore, cited>> /\ active' \subseteq active
        /\ pc' \in {pc, "done"}
    BY <1>3 DEF Refuse, DeleteChunk, Disconnect, Goto, vars, queryVars
  <2>2. ContextFits'
    BY <2>1 DEF ContextInv, ContextFits
  <2> QED
    BY <2>1, <2>2 DEF ContextInv
<1>4. CASE Answer
  <2>1. /\ UNCHANGED <<hits, sources, goneBefore, active>>
        /\ cited' \in {cited, Verified(answer)}
        /\ pc \notin {"idle", "hydrate"} /\ pc' \notin {"idle", "hydrate"}
    BY <1>4 DEF Answer, Generate, GenerateFails, Respond, RespondUnavailable, Goto, queryVars,
                AfterAttempt
  <2> QED
    BY <2>1, SameContext
<1>5. CASE Stream
  <2>1. /\ UNCHANGED <<hits, sources, goneBefore, active>>
        /\ cited' \in {cited, Verified(answer)}
        /\ pc \notin {"idle", "hydrate"} /\ pc' \notin {"idle", "hydrate"}
    BY <1>5 DEF Stream, SendStart, CheckClient, SendRefusal, StreamToken, StreamEnds, StreamFails,
                SendError, Cancel, Close, Validate, SendCitations, SendMetadata, SendDone, Goto,
                queryVars, AfterBody, AfterValidation, StreamSteps
  <2> QED
    BY <2>1, SameContext
<1> QED
  BY <1>1, <1>2, <1>3, <1>4, <1>5 DEF Next, Prepare, Finished

\* Adding a token to a text that is not at its bound.
LEMMA TextGrows ==
  ASSUME NEW text \in Texts, Len(text) < MaxTokens, NEW token \in Tokens
  PROVE  Append(text, token) \in Texts
<1>1. PICK m \in 0 .. MaxTokens : text \in [1 .. m -> Tokens]
  BY DEF Texts, BoundedSeq, SeqOf
<1>2. m \in Nat /\ MaxTokens \in Nat
  BY TokensAssumption
<1>3. text \in Seq(Tokens) /\ Len(text) = m
  BY <1>1, <1>2, ListOf
<1>4. PICK longer : longer = Append(text, token)
  OBVIOUS
<1>5. longer \in Seq(Tokens) /\ Len(longer) = m + 1
  BY <1>3, <1>4
<1>6. longer \in [1 .. m + 1 -> Tokens] /\ m + 1 \in 0 .. MaxTokens
  BY <1>2, <1>3, <1>5, LenProperties
<1> QED
  BY <1>4, <1>6 DEF Texts, BoundedSeq, SeqOf

LEMMA StreamTypesStep == ASSUME StreamTypes, [Next]_vars PROVE StreamTypes'
<1>1. <<>> \in Texts /\ <<Refusal>> \in Texts
  <2>1. MaxTokens \in Nat \ {0} /\ MaxLabel \in Nat /\ Refusal \in Tokens
    BY TokensAssumption, BoundsAssumption DEF Refusal, Tokens, Plain
  <2>2. <<>> \in [1 .. 0 -> Tokens] /\ <<Refusal>> \in [1 .. 1 -> Tokens] /\ {0, 1} \subseteq 0 .. MaxTokens
    BY <2>1
  <2> QED
    BY <2>2 DEF Texts, BoundedSeq, SeqOf
<1>2. CASE Prepare
  BY <1>1, <1>2 DEF Prepare, Match, Hydrate, Refuse, queryVars, StreamTypes
<1>3. CASE Answer
  BY <1>3 DEF Answer, Generate, GenerateFails, Respond, RespondUnavailable, queryVars, StreamTypes
<1>4. CASE StreamToken
  BY <1>4, TextGrows DEF StreamToken, StreamTypes
<1>5. CASE Stream /\ ~StreamToken
  BY <1>1, <1>5
     DEF Stream, SendStart, CheckClient, SendRefusal, StreamEnds, StreamFails, SendError,
         Cancel, Close, CloseUpstream, Validate, SendCitations, SendMetadata, SendDone,
         queryVars, StreamTypes
<1>6. CASE (\E c \in Chunks : DeleteChunk(c)) \/ Disconnect \/ UNCHANGED vars
  BY <1>6 DEF DeleteChunk, Disconnect, vars, queryVars, StreamTypes
<1> QED
  BY <1>2, <1>3, <1>4, <1>5, <1>6 DEF Next, Finished

LEMMA ContextCorrect == Spec => [](ContextInv /\ StreamTypes)
BY ContextInit, ContextStep, StreamTypesStep, PTL DEF Spec

\* Every variable keeps its type; the client is sent only labels of the context.
THEOREM TypeCorrect == Spec => []TypeOK
<1>1. QueryInv /\ ContextInv /\ StreamTypes => TypeOK
  BY DEF QueryInv, ContextInv, StreamTypes, TypeOK
<1> QED
  BY <1>1, QueryInvCorrect, ContextCorrect, PTL

\* The context never exceeds its budget of sources and characters, for sources of any
\* length: what _select_context counts is what render_context writes.
THEOREM ContextIsBounded == Spec => []ContextFits
<1>1. ContextInv => ContextFits
  BY DEF ContextInv
<1> QED
  BY <1>1, ContextCorrect, PTL

\* No chunk deleted before the query began reaches the prompt or the citations, for
\* any ranking of any snapshot and deletions at any moment.
THEOREM DeletedAreNotCited == Spec => []DeletedStayOut
<1>1. ContextInv => DeletedStayOut
  <2> SUFFICES ASSUME ContextInv PROVE DeletedStayOut
    OBVIOUS
  <2>1. DOMAIN sources = 1 .. Len(sources)
    BY CandidatesAre, LenProperties DEF ContextInv
  <2> QED
    BY <2>1 DEF ContextInv, DeletedStayOut
<1> QED
  BY <1>1, ContextCorrect, PTL
=============================================================================
