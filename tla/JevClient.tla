----------------------------- MODULE JevClient -----------------------------
(***************************************************************************)
(* packages/providers/jev/src/client.ts under a run: a call of classify     *)
(* posts the batch, again after a delay if the failure may pass, each post  *)
(* under a timer of its own.  The run awaits the call under its own timer,  *)
(* and a call it no longer awaits goes on, as long as the process does.     *)
(***************************************************************************)
EXTENDS JevAnswers

CONSTANT Retries      \* options.retries

ASSUME RetriesAssumption == Retries \in Nat

VARIABLE calls        \* run -> one call for each batch sent

jevVars == <<vars, calls>>

\* How a post can end otherwise than well: the client's timer, the network, the
\* service, the request, the response.
Errors == {"AbortError", "network", "5xx", "4xx", "invalid JSON"}

\* shouldRetry, and the attempts of postWithRetry
ShouldRetry(error, posts) == error \in {"network", "5xx"} /\ posts <= Retries

Call(state, posts) == [state |-> state, posts |-> posts]

JevInit == Init /\ calls = [r \in Runs |-> <<>>]

\* The run asks: the first post goes out.
AskJev(r) == Ask(r) /\ calls' = [calls EXCEPT ![r] = Append(@, Call("posted", 1))]

\* The call of the batch under way resolves in time.
AnswerJev(r) ==
  /\ pc[r] = "await" /\ Last(calls[r]).state = "resolved"
  /\ Answer(r) /\ UNCHANGED calls

\* The call rejects, or the run's timer fires, whatever the call is at.
FailJev(r) == Fail(r) /\ UNCHANGED calls

Elsewise(r) ==
  /\ Lookup(r) \/ Record(r) \/ Write(r) \/ BatchDone(r) \/ Decide(r) \/ Crash(r)
  /\ UNCHANGED calls

\* A process that has its decisions may live on while a call is under way (that of
\* a session-end hook does not: hook-cli.ts:5).
OnCall(r, k, state) ==
  pc[r] # "crashed" /\ k \in DOMAIN calls[r] /\ calls[r][k].state = state
SetCall(r, k, call) == calls' = [calls EXCEPT ![r][k] = call] /\ UNCHANGED vars

Respond(r, k) ==
  OnCall(r, k, "posted") /\ SetCall(r, k, [calls[r][k] EXCEPT !.state = "resolved"])

\* Mutant: a post has no timer of its own.
PostFailsUntimed(r, k, error) ==
  /\ OnCall(r, k, "posted") /\ error # "AbortError"
  /\ SetCall(r, k, [calls[r][k] EXCEPT
                      !.state = IF ShouldRetry(error, calls[r][k].posts)
                                THEN "delay" ELSE "rejected"])

PostFails(r, k, error) ==
  /\ OnCall(r, k, "posted")
  /\ SetCall(r, k, [calls[r][k] EXCEPT
                      !.state = IF ShouldRetry(error, calls[r][k].posts)
                                THEN "delay" ELSE "rejected"])

PostAgain(r, k) ==
  OnCall(r, k, "delay") /\ SetCall(r, k, Call("posted", calls[r][k].posts + 1))

JevNext ==
  \E r \in Runs :
    \/ AskJev(r) \/ AnswerJev(r) \/ FailJev(r) \/ Elsewise(r)
    \/ \E k \in DOMAIN calls[r] :
         \/ Respond(r, k) \/ PostAgain(r, k)
         \/ \E error \in Errors : PostFails(r, k, error)

JevSpec == JevInit /\ [][JevNext]_jevVars

\* The event loop runs what is ready, and timers fire: the run's, the client's
\* and that of the delay.  Nothing obliges the service to answer.
JevFairness ==
  \A r \in Runs :
    /\ WF_jevVars(\/ AskJev(r) \/ FailJev(r)
                  \/ (Lookup(r) \/ Record(r) \/ Write(r) \/ BatchDone(r) \/ Decide(r))
                       /\ UNCHANGED calls)
    /\ \A k \in 1 .. Len(Candidates) :
         WF_jevVars(PostFails(r, k, "AbortError") \/ PostAgain(r, k))
JevFairSpec == JevSpec /\ JevFairness

-----------------------------------------------------------------------------

Total(counts) ==
  LET sum[n \in 0 .. Len(counts)] == IF n = 0 THEN 0 ELSE sum[n - 1] + counts[n]
  IN  sum[Len(counts)]

\* How often anything about an item was posted for a run.
Posts(r, item) ==
  Total([k \in DOMAIN calls[r] |->
           IF item \in ToSet(sent[r][k]) THEN calls[r][k].posts ELSE 0])

\* What is posted about an item is bounded for a whole run, over batches, time-outs
\* of the run and of the client, and retries; the next run is the first that may
\* ask again (client.ts:71-86, run.ts:187-241).
PostsAreBounded == \A r \in Runs : \A i \in Items : Posts(r, i) <= Retries + 1

\* No request is left under way, and with it no process, even if the service never
\* answers, the run has given up waiting or the service fails every time
\* (client.ts:88-120, 142-157).
CallsEnd ==
  \A r \in Runs :
    <>(\/ pc[r] = "crashed"
       \/ pc[r] = "done" /\ \A k \in DOMAIN calls[r] :
                              calls[r][k].state \in {"resolved", "rejected"})
=============================================================================
