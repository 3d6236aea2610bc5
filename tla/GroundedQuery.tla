---------------------------- MODULE GroundedQuery ----------------------------
(***************************************************************************)
(* One question answered by POST /query or POST /query/stream: candidates  *)
(* of the snapshot in memory, hydration through PostgreSQL, the bounded    *)
(* context, generation, and verified citations; documents are deleted and  *)
(* a streaming client goes away at any moment.                             *)
(*                                                                         *)
(* A text is a sequence of tokens: a source label 1, 2, ... (possibly one  *)
(* nobody assigned), Plain text, or Refusal, a wording that                *)
(* is_insufficient_context_answer recognises.  The label of a source is    *)
(* its position: labels are assigned in order and the context is a prefix. *)
(***************************************************************************)
EXTENDS Naturals, SequencesExt, Lists

CONSTANTS
    Chunks,            \* chunks of the snapshot
    K,                 \* results asked for
    Blank,             \* chunks of which the sanitizer leaves nothing
    Length,            \* Length[c]: characters of the rendered source
    MaxContextChunks, MaxContextChars,
    MaxLabel,          \* bound: labels a model writes
    MaxTokens          \* bound: tokens of an answer

ASSUME BlankAssumption == Blank \subseteq Chunks
ASSUME LengthAssumption == Length \in [Chunks -> Nat \ {0}]
ASSUME BoundsAssumption == {K, MaxContextChunks, MaxContextChars, MaxLabel} \subseteq Nat
\* The service's own wording is an answer.
ASSUME TokensAssumption == MaxTokens \in Nat \ {0}

VARIABLES
    active,       \* chunks of documents that are not deleted
    goneBefore,   \* observer: chunks deleted before the query began
    mode,         \* endpoint: "json" or "stream"
    pc,
    hits,         \* candidates, then hydrated hits
    sources,      \* prepared.sources
    answer,       \* the text generated, or streamed so far
    events,       \* what the client was sent
    cited,        \* labels in the citations it was sent
    connected,    \* the client is there
    upstream,     \* response of Ollama: "none", "open", "closed"
    doneSeen      \* its line with done = true was read

queryVars == <<hits, sources, answer, cited>>
vars == <<active, goneBefore, mode, pc, queryVars, events, connected, upstream, doneSeen>>

Plain == 0
Refusal == MaxLabel + 1
Tokens == Plain .. Refusal
Texts == BoundedSeq(Tokens, MaxTokens)
CandidateLists == {s \in BoundedSeq(Chunks, K) : IsInjective(s)}
JsonSteps == {"generate", "repair", "respond", "fail"}
StreamSteps == {"start", "check", "refuse", "stream", "close", "validate", "error",
                "citations", "metadata", "finish"}
Steps == {"idle", "hydrate", "done"} \cup JsonSteps \cup StreamSteps
EventKinds == {"refused", "answer", "start", "token", "citations", "metadata", "done", "error"}

Init ==
    /\ active \in SUBSET Chunks
    /\ goneBefore = {}
    /\ mode \in {"json", "stream"}
    /\ pc = "idle"
    /\ hits = <<>> /\ sources = <<>> /\ answer = <<>> /\ cited = {}
    /\ events = <<>>
    /\ connected = TRUE
    /\ upstream = "none"
    /\ doneSeen = FALSE

-----------------------------------------------------------------------------
(* Mutated forms of definitions below: plausible bugs of this code.         *)

\* Candidates are trusted.
Unfiltered(candidates) == candidates
\* The separators between rendered sources are not counted.
CountSourcesOnly(blocks, n) == Total([m \in 1 .. n |-> Length[blocks[m]]])
\* The answer to the repair prompt is not verified.
AcceptRepair(grounded) == IF grounded \/ pc = "repair" THEN "respond" ELSE "repair"
\* The repair is tried until an answer has citations.
RepairUntilCited(grounded) == IF grounded THEN "respond" ELSE "repair"
\* A stream that ends without its done line is taken for complete.
AcceptTruncated(complete) == "validate"
\* The finally clause around the stream is missing.
LeaveOpen == UNCHANGED upstream
\* An invalid stream is reported, and the generator goes on.
ReportAndGoOn(grounded) == <<"error", "citations">>
\* Every label is taken for a citation.
AnyLabel(text) == ToSet(text) \cap (1 .. MaxLabel)

-----------------------------------------------------------------------------
(* Pure parts *)

\* Canonical rows of the candidates; the others are skipped.
Hydrated(candidates) == Kept(candidates, active)

Sanitized(rows) == Kept(rows, Chunks \ Blank)

\* used_chars of _select_context after n sources.
UsedChars(blocks, n) ==
    Total([m \in 1 .. n |-> (IF m = 1 THEN 0 ELSE 2) + Length[blocks[m]]])

\* Sources are taken in order up to the first that does not fit.
SelectContext(blocks) ==
    LET Fits(n) == n <= MaxContextChunks /\ UsedChars(blocks, n) <= MaxContextChars
    IN  SubSeq(blocks, 1, Max({n \in 0 .. Len(blocks) : \A m \in 1 .. n : Fits(m)}))

\* Length of render_context: the sources joined by an empty line.
ContextLength(blocks) ==
    IF blocks = <<>> THEN 0
    ELSE Total([m \in 1 .. Len(blocks) |-> Length[blocks[m]]]) + 2 * (Len(blocks) - 1)

\* extract_verified_citations: known labels, each once.
Verified(text) == ToSet(text) \cap (1 .. Len(sources))

IsRefusal(text) == Refusal \in ToSet(text)
Grounded(text) == Verified(text) # {} \/ IsRefusal(text)

\* Where answer goes after an attempt: one repair, then failure.
AfterAttempt(grounded) ==
    IF grounded THEN "respond" ELSE IF pc = "generate" THEN "repair" ELSE "fail"

\* Where the generator goes when the response of Ollama has ended.
AfterBody(complete) == IF complete THEN "validate" ELSE "error"

\* What validation sends (nothing yet when the answer holds) and where it goes.
AfterValidation(grounded) == IF grounded THEN <<"", "citations">> ELSE <<"error", "done">>

CloseUpstream == upstream' = "closed"

Send(event) == events' = Append(events, event)
Goto(step) == pc' = step

-----------------------------------------------------------------------------
(* Both endpoints: prepare                                                  *)

\* The fused candidates, cut to K, from a snapshot that may be older than a
\* deletion.
Match ==
    /\ pc = "idle"
    /\ hits' \in CandidateLists
    /\ goneBefore' = Chunks \ active
    /\ Goto("hydrate")
    /\ UNCHANGED <<active, mode, sources, answer, cited, events, connected, upstream, doneSeen>>

\* Without sources answer is _insufficient_result; the stream decides later.
Hydrate ==
    LET rows == Hydrated(hits)
        context == SelectContext(Sanitized(rows))
    IN  /\ pc = "hydrate"
        /\ hits' = rows
        /\ sources' = context
        /\ IF mode = "json" /\ context = <<>>
             THEN answer' = <<Refusal>> /\ Goto("respond")
             ELSE answer' = <<>> /\ Goto(IF mode = "json" THEN "generate" ELSE "start")
        /\ UNCHANGED <<active, goneBefore, mode, cited, events, connected, upstream, doneSeen>>

\* RetrievalError: no snapshot, another embedding model, a failed lookup.
Refuse ==
    /\ pc \in {"idle", "hydrate"}
    /\ Send("refused")
    /\ Goto("done")
    /\ UNCHANGED <<active, goneBefore, mode, queryVars, connected, upstream, doneSeen>>

-----------------------------------------------------------------------------
(* POST /query                                                              *)

Generate ==
    /\ pc \in {"generate", "repair"}
    /\ \E text \in Texts \ {<<>>} : answer' = text /\ Goto(AfterAttempt(Grounded(text)))
    /\ UNCHANGED <<active, goneBefore, mode, hits, sources, cited, events, connected,
                   upstream, doneSeen>>

\* Timeout, HTTP error, or an answer that is empty or no text.
GenerateFails ==
    /\ pc \in {"generate", "repair"}
    /\ Goto("fail")
    /\ UNCHANGED <<active, goneBefore, mode, queryVars, events, connected, upstream, doneSeen>>

Respond ==
    /\ pc = "respond"
    /\ cited' = Verified(answer)
    /\ Send("answer")
    /\ Goto("done")
    /\ UNCHANGED <<active, goneBefore, mode, hits, sources, answer, connected, upstream, doneSeen>>

RespondUnavailable ==
    /\ pc = "fail"
    /\ Send("error")
    /\ Goto("done")
    /\ UNCHANGED <<active, goneBefore, mode, queryVars, connected, upstream, doneSeen>>

-----------------------------------------------------------------------------
(* POST /query/stream: stream_query_events                                  *)

SendStart ==
    /\ pc = "start"
    /\ Send("start")
    /\ Goto("check")
    /\ UNCHANGED <<active, goneBefore, mode, queryVars, connected, upstream, doneSeen>>

\* Disconnected: return.  The upstream generator opens its request when read.
CheckClient ==
    /\ pc = "check"
    /\ IF connected /\ sources # <<>>
         THEN upstream' = "open" /\ Goto("stream")
         ELSE UNCHANGED upstream /\ Goto(IF connected THEN "refuse" ELSE "done")
    /\ UNCHANGED <<active, goneBefore, mode, queryVars, events, connected, doneSeen>>

\* INSUFFICIENT_CONTEXT_ANSWER, then citations (none), metadata and done.
SendRefusal ==
    /\ pc = "refuse"
    /\ answer' = <<Refusal>>
    /\ Send("token")
    /\ Goto("citations")
    /\ UNCHANGED <<active, goneBefore, mode, hits, sources, cited, connected, upstream, doneSeen>>

\* A line with content; lines with empty content change nothing.
StreamToken ==
    /\ pc = "stream"
    /\ IF connected
         THEN /\ Len(answer) < MaxTokens
              /\ \E token \in Tokens : answer' = Append(answer, token)
              /\ Send("token")
              /\ UNCHANGED pc
         ELSE Goto("close") /\ UNCHANGED <<answer, events>>
    /\ UNCHANGED <<active, goneBefore, mode, hits, sources, cited, connected, upstream, doneSeen>>

\* The response ends, with its done line or truncated.
StreamEnds ==
    /\ pc = "stream"
    /\ \E complete \in BOOLEAN : doneSeen' = complete /\ Goto(AfterBody(complete))
    /\ upstream' = "closed"
    /\ UNCHANGED <<active, goneBefore, mode, queryVars, events, connected>>

\* Timeout, HTTP error, error line, invalid line, or any other exception.
StreamFails ==
    /\ pc = "stream"
    /\ upstream' = "closed"
    /\ Goto("error")
    /\ UNCHANGED <<active, goneBefore, mode, queryVars, events, connected, doneSeen>>

SendError ==
    /\ pc = "error"
    /\ IF connected THEN Send("error") ELSE UNCHANGED events
    /\ Goto("done")
    /\ UNCHANGED <<active, goneBefore, mode, queryVars, connected, upstream, doneSeen>>

\* The server task is cancelled when the client is gone: the generator returns from
\* where it stands, through its finally clause when the upstream is open.
Cancel ==
    /\ ~connected
    /\ pc \in StreamSteps \ {"close"}
    /\ Goto(IF pc = "stream" THEN "close" ELSE "done")
    /\ UNCHANGED <<active, goneBefore, mode, queryVars, events, connected, upstream, doneSeen>>

Close ==
    /\ pc = "close"
    /\ CloseUpstream
    /\ Goto("done")
    /\ UNCHANGED <<active, goneBefore, mode, queryVars, events, connected, doneSeen>>

Validate ==
    LET next == AfterValidation(Grounded(answer))
    IN  /\ pc = "validate"
        /\ IF next[1] = "" THEN UNCHANGED events ELSE Send(next[1])
        /\ Goto(next[2])
        /\ UNCHANGED <<active, goneBefore, mode, queryVars, connected, upstream, doneSeen>>

SendCitations ==
    /\ pc = "citations"
    /\ cited' = Verified(answer)
    /\ Send("citations")
    /\ Goto("metadata")
    /\ UNCHANGED <<active, goneBefore, mode, hits, sources, answer, connected, upstream, doneSeen>>

SendMetadata ==
    /\ pc = "metadata"
    /\ Send("metadata")
    /\ Goto("finish")
    /\ UNCHANGED <<active, goneBefore, mode, queryVars, connected, upstream, doneSeen>>

SendDone ==
    /\ pc = "finish"
    /\ Send("done")
    /\ Goto("done")
    /\ UNCHANGED <<active, goneBefore, mode, queryVars, connected, upstream, doneSeen>>

-----------------------------------------------------------------------------
(* The environment                                                          *)

DeleteChunk(c) ==
    /\ c \in active
    /\ active' = active \ {c}
    /\ UNCHANGED <<goneBefore, mode, pc, queryVars, events, connected, upstream, doneSeen>>

Disconnect ==
    /\ mode = "stream"
    /\ connected
    /\ connected' = FALSE
    /\ UNCHANGED <<active, goneBefore, mode, pc, queryVars, events, upstream, doneSeen>>

-----------------------------------------------------------------------------

Prepare == Match \/ Hydrate \/ Refuse
Answer == Generate \/ GenerateFails \/ Respond \/ RespondUnavailable
Stream == \/ SendStart \/ CheckClient \/ SendRefusal \/ StreamToken \/ StreamEnds
          \/ StreamFails \/ SendError \/ Cancel \/ Close \/ Validate
          \/ SendCitations \/ SendMetadata \/ SendDone

\* The query has been answered.
Finished == pc = "done" /\ UNCHANGED vars

Next == \/ Prepare \/ Answer \/ Stream
        \/ \E c \in Chunks : DeleteChunk(c)
        \/ Disconnect
        \/ Finished

Spec == Init /\ [][Next]_vars

\* The server runs on; every wait for Ollama ends by its timeout.
FairSpec == Spec /\ WF_vars(Prepare) /\ WF_vars(Answer) /\ WF_vars(Stream)

-----------------------------------------------------------------------------
(* Properties                                                               *)

\* Every variable has its type.
TypeOK ==
    /\ active \subseteq Chunks /\ goneBefore \subseteq Chunks
    /\ mode \in {"json", "stream"}
    /\ pc \in Steps
    /\ hits \in CandidateLists /\ sources \in CandidateLists
    /\ answer \in Texts
    /\ events \in Seq(EventKinds)
    /\ cited \subseteq 1 .. Len(sources)
    /\ connected \in BOOLEAN /\ doneSeen \in BOOLEAN
    /\ upstream \in {"none", "open", "closed"}

Sent(kind) == \E i \in DOMAIN events : events[i] = kind
Succeeded == Sent("answer") \/ Sent("done")

\* The accounting of _select_context agrees with what render_context writes: the
\* context never exceeds its budget of sources and characters.
ContextFits ==
    /\ Len(sources) <= MaxContextChunks
    /\ ContextLength(sources) <= MaxContextChars

\* A chunk deleted before the query began reaches neither the prompt nor the
\* citations, although the snapshot still has it.
DeletedStayOut ==
    pc \notin {"idle", "hydrate"} =>
        /\ \A i \in DOMAIN sources : sources[i] \notin goneBefore
        /\ \A label \in cited : sources[label] \notin goneBefore

\* A success on either endpoint carries a whole answer that cites a source of the
\* context or says that the context is insufficient; nothing else ends well.
SuccessIsGrounded ==
    Succeeded => /\ Grounded(answer) /\ cited = Verified(answer)
                 /\ upstream # "none" => doneSeen

\* The order of the events: start, tokens, then citations, metadata and done, or
\* an error that ends the stream.  Nothing follows done, error, answer or refused.
MayFollow ==
    [refused |-> {}, answer |-> {}, done |-> {}, error |-> {},
     start |-> {"token", "error"},
     token |-> {"token", "citations", "error"},
     citations |-> {"metadata"}, metadata |-> {"done"}]
EventOrder ==
    /\ events # <<>> => events[1] \in (IF mode = "stream" THEN {"refused", "start"}
                                                       ELSE {"refused", "answer", "error"})
    /\ \A i \in 1 .. Len(events) - 1 : events[i + 1] \in MayFollow[events[i]]

\* However a stream ends, the response of Ollama is not left open.
UpstreamReleased == pc = "done" => upstream # "open"

\* POST /query ends whatever the model answers, and a stream whose client has gone
\* ends although the model could go on.
QueriesEnd == (pc # "idle" /\ (mode = "json" \/ ~connected)) ~> (pc = "done")
=============================================================================
