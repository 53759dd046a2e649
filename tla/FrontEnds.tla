------------------------------- MODULE FrontEnds -------------------------------
(***************************************************************************)
(* The programs in front of one node that let people and other programs    *)
(* use the network: the dashboard's jobs and its chat (src/kemi/webui.py,  *)
(* src/kemi/chat.py), the gateway that speaks another API                  *)
(* (src/kemi/openai_gateway.py), and pipelines of the library              *)
(* (src/kemi/api.py).  They share the account, see ConsumerCalls.          *)
(*                                                                         *)
(* What an event of a call makes its caller do is done before anything     *)
(* else runs, so it is one step with the event.                            *)
(***************************************************************************)
EXTENDS ConsumerCalls, Sequences, FiniteSets

CONSTANTS
    Job,            \* jobs submitted to the dashboard
    Request,        \* requests to the gateway
    Chat, Pipe,     \* the caller of chat turns, and that of pipelines
    Stages,         \* of a pipeline
    MaxKept,        \* MAX_JOBS_KEPT
    MaxLog,         \* the chat log keeps so many lines
    MaxHistory,     \* bound: exchanges that fit into HISTORY_CHAR_BUDGET
    MaxStarted      \* bound: what all of them are asked for

ASSUME FrontEndAssumption ==
    /\ Caller = Job \cup Request \cup {Chat, Pipe}
    /\ Job \cap Request = {} /\ Chat # Pipe
    /\ Chat \notin Job \cup Request /\ Pipe \notin Job \cup Request
    /\ IsFiniteSet(Caller)
    /\ Stages \in Nat \ {0} /\ MaxKept \in Nat \ {0} /\ MaxLog \in Nat
    /\ MaxHistory \in Nat /\ MaxStarted \in Nat

VARIABLES
    entry,      \* entry[j]: a job's status, and whether text of it was shown
    kept,       \* _jobs: the jobs the dashboard knows of, oldest first
    busy,       \* a chat turn is under way
    live,       \* there is text of it on display
    log,        \* the chat log: who spoke
    history,    \* how many exchanges the next prompt begins with
    request,    \* request[r]: what was asked for and what was answered
    stage,      \* the stage of the pipeline, or 0
    started     \* bounded by MaxStarted

jobs == <<entry, kept>>
chat == <<busy, live, log, history>>
vars == <<call, account, jobs, chat, request, stage, started>>

Init ==
    /\ CallsInit
    /\ entry = [j \in Job |-> [status |-> "none", shown |-> FALSE]] /\ kept = <<>>
    /\ busy = FALSE /\ live = FALSE /\ log = <<>> /\ history = 0
    /\ request = [r \in Request |-> [kind |-> "none", answer |-> "none"]]
    /\ stage = 0 /\ started = 0

\* One more is asked for.
Asked == started < MaxStarted /\ started' = started + 1

----------------------------------------------------------------------------
\* The dashboard's jobs.

\* The newest n of s.
Newest(s, n) == IF Len(s) > n THEN SubSeq(s, Len(s) - n + 1, Len(s)) ELSE s

\* A generation without cross-checks is streamed, everything else is a job.
\* The oldest entries go, whether their jobs have ended or not.
Submit(j) ==
    /\ Asked /\ entry[j].status = "none"
    /\ entry' = [entry EXCEPT ![j].status = "running"]
    /\ kept' = Newest(Append(kept, j), MaxKept)
    /\ \E how \in {"stream", "batch"} : call' = [call EXCEPT ![j] = Begun(how)]
    /\ UNCHANGED <<account, chat, request, stage>>

\* No provider streamed a thing: the same job again, as a batch.
Falls(j, r) == r.how = "stream" /\ r.at = "raised" /\ ~entry[j].shown

FallBack(j) ==
    /\ entry[j].status = "running" /\ Falls(j, call[j])
    /\ call' = [call EXCEPT ![j] = Begun("batch")]
    /\ UNCHANGED <<account, jobs, chat, request, stage, started>>

\* A token may be the empty text, which shows nothing.
JobShows(j) ==
    /\ Speak(j)
    /\ \E text \in BOOLEAN : entry' = [entry EXCEPT ![j].shown = @ \/ text]
    /\ UNCHANGED <<kept, chat, request, stage, started>>

JobMoves(j) ==
    /\ Move(j)
    /\ entry' = [entry EXCEPT ![j].status =
                    IF call'[j].at = "done" THEN "done"
                    ELSE IF Running(j)' \/ Falls(j, call'[j]) THEN "running" ELSE "failed"]
    /\ UNCHANGED <<kept, chat, request, stage, started>>

----------------------------------------------------------------------------
\* A conversation: the dashboard's, or the one in a terminal.

\* Mutant: a second question may be asked while an answer comes.
Idle_Ever == TRUE

Idle == ~busy

\* build_prompt drops the oldest exchanges until the prompt fits the budget.
Ask ==
    /\ Idle /\ Asked
    /\ busy' = TRUE /\ live' = FALSE /\ log' = Append(log, "you")
    /\ history' \in {h \in 0..history : h <= MaxHistory}
    /\ call' = [call EXCEPT ![Chat] = Begun("stream")]
    /\ UNCHANGED <<account, jobs, request, stage>>

ChatShows ==
    /\ Speak(Chat) /\ live' = TRUE
    /\ UNCHANGED <<jobs, busy, log, history, request, stage, started>>

Freed == TRUE

\* The turn ends: with an answer, which goes into the history, or an error.
Ends ==
    LET good == call'[Chat].at = "done"
    IN /\ log' = Newest(Append(log, IF good THEN "fleet" ELSE "error"), MaxLog)
       /\ history' = IF good THEN history + 1 ELSE history
       /\ live' = FALSE /\ busy' = ~Freed

ChatMoves ==
    /\ Move(Chat)
    /\ IF Running(Chat)' THEN UNCHANGED chat ELSE Ends
    /\ UNCHANGED <<jobs, request, stage, started>>

\* /clear, in the terminal.
Clear ==
    /\ ~busy /\ history > 0 /\ history' = 0
    /\ UNCHANGED <<call, account, jobs, busy, live, log, request, stage, started>>

----------------------------------------------------------------------------
\* The gateway.

Awaited(r, kinds) == request[r].kind \in kinds /\ request[r].answer = "none"

Answers(r, a) == request' = [request EXCEPT ![r].answer = a]

\* A request comes in: a completion, whole or as a stream, embeddings, the list
\* of models; or none of these, which is told or only hung up on.
Receive(r) ==
    /\ Asked /\ request[r].kind = "none"
    /\ \/ \E kind \in {"whole", "live", "embed", "models"} :
             /\ request' = [request EXCEPT ![r].kind = kind]
             /\ call' = [call EXCEPT ![r] = Begun(IF kind = "embed" THEN "batch" ELSE "stream")]
       \/ /\ \E a \in {"bad request", "hung up"} :
                request' = [request EXCEPT ![r] = [kind |-> "bad", answer |-> a]]
          /\ UNCHANGED call
    /\ UNCHANGED <<account, jobs, chat, stage>>

\* The models come from one lookup; without any there is a default.
ListModels(r) ==
    /\ Awaited(r, {"models"})
    /\ call' = [call EXCEPT ![r] = Over(r, "done")] /\ Answers(r, "ok")
    /\ UNCHANGED <<account, jobs, chat, stage, started>>

\* A token: it is kept, or written to the client, which may be gone.
Relays(r) ==
    /\ Speak(r)
    /\ UNCHANGED <<jobs, chat, request, stage, started>>

\* What the client gets when the call is over.
Reply(at) ==
    CASE at = "done" -> "ok"
      [] at = "raised" -> "error"
      [] at = "crashed" -> "hung up"

RequestMoves(r) ==
    /\ Awaited(r, {"whole", "live", "embed"}) /\ Move(r)
    /\ IF Running(r)' THEN UNCHANGED request ELSE Answers(r, Reply(call'[r].at))
    /\ UNCHANGED <<jobs, chat, stage, started>>


\* Requests with a deadline.
Limited == {"whole", "embed"}

Deadline(r) ==
    /\ Awaited(r, Limited) /\ Cancel(r) /\ Answers(r, "timeout")
    /\ UNCHANGED <<jobs, chat, stage, started>>

\* The client of a stream is gone, which shows when something is written.
Leave(r) ==
    /\ Awaited(r, {"live"}) /\ call[r].at = "talking"
    /\ Cancel(r) /\ Answers(r, "hung up")
    /\ UNCHANGED <<jobs, chat, stage, started>>

----------------------------------------------------------------------------
\* Pipelines: each stage is a job on what the one before it gave.

StartPipe ==
    /\ stage = 0 /\ Asked
    /\ stage' = 1 /\ call' = [call EXCEPT ![Pipe] = Begun("batch")]
    /\ UNCHANGED <<account, jobs, chat, request>>

PipeMoves ==
    /\ stage > 0 /\ Move(Pipe)
    /\ stage' = IF Running(Pipe)' \/ (call'[Pipe].at = "done" /\ stage < Stages)
                THEN stage ELSE 0
    /\ UNCHANGED <<jobs, chat, request, started>>

NextStage ==
    /\ stage > 0 /\ call[Pipe].at = "done"
    /\ stage' = stage + 1 /\ call' = [call EXCEPT ![Pipe] = Begun("batch")]
    /\ UNCHANGED <<account, jobs, chat, request, started>>

----------------------------------------------------------------------------
\* What goes on in calls and unseen by their callers.
Behind ==
    /\ Pull \/ \E c \in Caller : Quiet(c)
    /\ UNCHANGED <<jobs, chat, request, stage, started>>

Next ==
    \/ \E j \in Job : Submit(j) \/ FallBack(j) \/ JobShows(j) \/ JobMoves(j)
    \/ Ask \/ ChatShows \/ ChatMoves \/ Clear
    \/ \E r \in Request : \/ Receive(r) \/ ListModels(r) \/ Relays(r) \/ RequestMoves(r)
                           \/ Deadline(r) \/ Leave(r)
    \/ StartPipe \/ PipeMoves \/ NextStage
    \/ Behind

Spec == Init /\ [][Next]_vars

\* Timers run out, lookups end, and a stream ends: providers stop, stall or
\* are cut off (see StreamSession).  Nothing is said of jobs.
Fairness ==
    /\ WF_vars(ChatMoves)
    /\ \A r \in Request :
          /\ WF_vars(Deadline(r)) /\ WF_vars(ListModels(r))
          /\ WF_vars(RequestMoves(r) /\ request[r].kind = "live")

FairSpec == Spec /\ Fairness

----------------------------------------------------------------------------
\* Each one looks at the balance before it signs, but others do as well before
\* it is charged: on the replica of the node the account gets at most so far
\* below zero as all the others may have signed at once, however many attempts
\* fail, and leaving aside what gossip brings back of forgotten payments.
OverdrawnByRivals ==
    LET callers == {c \in Caller : call[c].at # "idle"}
    IN callers # {} => balance + pulled >= -((Cardinality(callers) - 1) * Price)

\* Questions and answers alternate in the log, whoever asks and however turns
\* end, and the last one is open exactly while a turn is under way; what is on
\* display belongs to it.
ChatInOrder ==
    /\ \A i \in DOMAIN log : i < Len(log) => (log[i] = "you" <=> log[i + 1] # "you")
    /\ busy <=> log # <<>> /\ log[Len(log)] = "you"
    /\ busy <=> Running(Chat)
    /\ live => busy


----------------------------------------------------------------------------
\* What the code's documents say and the code does not do.

\* The comment of _run_job on tokens: they "already flowed and were paid for",
\* so the job is not run again.
PaidOnce == [][\A j \in Job : call[j].at = "talking" => ~Falls(j, call[j])']_vars
=============================================================================
