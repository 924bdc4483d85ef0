---------------------------- MODULE SemanticRun ----------------------------
(***************************************************************************)
(* runSemanticClassification (packages/core/src/semantic/run.ts) with      *)
(* batch.ts, sanitize.ts, policy.ts, apply.ts and cache.ts: look the       *)
(* candidates up in the file cache, ask the provider about the others      *)
(* batch by batch under a timeout, keep the valid answers, cache them, and *)
(* turn what is left into decisions.                                       *)
(*                                                                         *)
(* Several runs (processes) work on the same session and share the cache   *)
(* directory.  A step is what happens between two awaits.  Scores are      *)
(* integers 0 .. Unit standing for 0.0 .. 1.0.                             *)
(***************************************************************************)
EXTENDS Integers, SequencesExt, Selection

CONSTANTS
  Runs,            \* concurrent analyses
  Candidates,      \* sequence of the candidates' item ids, in session order
  Hash,            \* item id -> hash of its normalized content
  Cost,            \* item id -> tokens its packed form costs
  Vetoed,          \* items with a retained deterministic decision
  BatchMaxItems, BatchMaxTokens,
  CacheOn,         \* config.semanticCache
  Policy,          \* run -> config.semanticPolicy: thresholds and version
  Responses(_),    \* what the provider may answer about a batch
  Unit, NaN, None,
  Torn             \* a file cut short, or two writes over each other

ASSUME UnitAssumption == Unit \in Nat \ {0} /\ NaN \notin Int
ASSUME CacheOnAssumption == CacheOn \in BOOLEAN
\* Who changes the thresholds changes the policy's version.
ASSUME PolicyAssumption == \A r, o \in Runs :
  Policy[r].policyVersion = Policy[o].policyVersion => Policy[r] = Policy[o]
ASSUME BatchAssumption == BatchMaxItems \in Int /\ BatchMaxTokens \in Int

\* Each item is a candidate once: it is made from one item of the session.
Items == ToSet(Candidates)
ASSUME CandidatesAssumption == Candidates \in Seq(Items) /\ IsInjective(Candidates)

\* What one answer became: the item, its action and the scores.
Result == [item : Items, action : {"KEEP", "COMPRESS", "DROP"},
           relevance : 0 .. Unit, confidence : 0 .. Unit]

ASSUME NoneAssumption == None \notin Seq(Result)

\* A response that is a list has an answer in each place, with numbers for scores
\* or what stands for none; what it is about and what action it gives is open.
IsAnswer(x) ==
  /\ x = [item |-> x.item, action |-> x.action, relevance |-> x.relevance,
          confidence |-> x.confidence]
  /\ {x.relevance, x.confidence} \subseteq Int \cup {NaN}
Batches == {asked \in UNION {[1 .. n -> Items] : n \in 1 .. Len(Candidates)} :
              IsInjective(asked)}
ASSUME ResponsesAssumption ==
  \A asked \in Batches : \A response \in Responses(asked) \ {None} :
    /\ Len(response) \in Nat
    /\ response = [k \in 1 .. Len(response) |-> response[k]]
    /\ \A k \in 1 .. Len(response) : IsAnswer(response[k])

VARIABLES
  pc,         \* run -> where it stands
  queue,      \* run -> candidates still to look up
  cached,     \* run -> results found in the cache
  uncached,   \* run -> candidates still to ask about
  batch,      \* run -> the batch being asked about
  toRecord,   \* run -> sanitized answers of the batch not yet recorded
  fresh,      \* run -> results obtained from the provider
  failures,   \* run -> providerFailures
  sent,       \* run -> sequence of the batches asked about so far
  decisions,  \* run -> the semantic decisions, None before the end
  cache,      \* key -> content of its file: a result, Torn or None
  answered    \* history: what the provider validly said, as
              \* <<run, item, relevance, confidence, its only mention>>

vars == <<pc, queue, cached, uncached, batch, toRecord, fresh, failures,
          sent, decisions, cache, answered>>
runVars == <<queue, cached, uncached, batch, toRecord, fresh, failures,
             sent, decisions>>

\* Mutant: a key that forgets the policy's version.
KeyIgnoringPolicy(r, item) == <<Hash[item], None>>

\* semanticCacheKey, of what differs between runs over one session with one
\* provider: neither the item's id nor the thresholds are part of it.
Key(r, item) == <<Hash[item], Policy[r].policyVersion>>
Keys == {Key(r, i) : r \in Runs, i \in Items}

Init ==
  /\ pc = [r \in Runs |-> "lookup"]
  /\ queue = [r \in Runs |-> Candidates]
  /\ cached = [r \in Runs |-> <<>>]
  /\ uncached = [r \in Runs |-> <<>>]
  /\ batch = [r \in Runs |-> <<>>]
  /\ toRecord = [r \in Runs |-> <<>>]
  /\ fresh = [r \in Runs |-> <<>>]
  /\ failures = [r \in Runs |-> 0]
  /\ sent = [r \in Runs |-> <<>>]
  /\ decisions = [r \in Runs |-> None]
  /\ cache = [k \in Keys |-> None]
  /\ answered = {}

-----------------------------------------------------------------------------
(* Pure parts.                                                             *)

\* Mutant: nothing caps a score above the scale.
ClampUnitFromBelow(v) == IF v = NaN \/ v < 0 THEN 0 ELSE v

ClampUnit(v) == IF v = NaN \/ v < 0 THEN 0 ELSE IF v > Unit THEN Unit ELSE v

\* policy.ts: thresholds turn a score into an action; a DROP the provider is
\* not sure of becomes a COMPRESS.
ActionFromRelevance(relevance, confidence, policy) ==
  IF relevance >= policy.keepMinRelevance THEN "KEEP"
  ELSE IF relevance >= policy.compressMinRelevance THEN "COMPRESS"
  ELSE IF confidence >= policy.dropMinConfidence THEN "DROP"
  ELSE "COMPRESS"

ApplyPolicyToResult(raw, policy) ==
  [raw EXCEPT !.action =
     ActionFromRelevance(ClampUnit(raw.relevance), ClampUnit(raw.confidence),
                         policy)]

\* Mutant: an answer about an item outside the batch is accepted.
ValidUnknownItem(raw, asked) ==
  /\ raw.action \in {"KEEP", "COMPRESS", "DROP"}
  /\ raw.relevance # NaN /\ raw.confidence # NaN

\* sanitize.ts: is this answer, the first about its item, worth keeping?
Valid(raw, asked) ==
  /\ raw.item \in asked
  /\ raw.action \in {"KEEP", "COMPRESS", "DROP"}
  /\ raw.relevance # NaN /\ raw.confidence # NaN

Clamped(raw) == [raw EXCEPT !.relevance = ClampUnit(@),
                            !.confidence = ClampUnit(@)]

\* Answers are read in order; only the first about each item counts, valid or
\* not.
Sanitized(answers, asked) ==
  LET repeated(k) == \E j \in 1 .. k - 1 : answers[j].item = answers[k].item
  IN  Kept([k \in DOMAIN answers |-> Clamped(answers[k])],
           [k \in DOMAIN answers |-> ~repeated(k) /\ Valid(answers[k], asked)])

TokensOf(items) == FoldLeft(LAMBDA sum, i : sum + Cost[i], 0, items)

\* batch.ts: the longest prefix within both limits, at least one candidate.
NextBatch(items) ==
  LET fits(n) == /\ n = 1 \/ n <= BatchMaxItems
                 /\ n = 1 \/ TokensOf(SubSeq(items, 1, n)) <= BatchMaxTokens
      n == CHOOSE m \in DOMAIN items :
             fits(m) /\ \A k \in DOMAIN items : fits(k) => k <= m
  IN  SubSeq(items, 1, n)

-----------------------------------------------------------------------------
(* The steps of a run.                                                     *)

\* Mutant: a hit is not compared with the candidate's own id.
IsHitForHash(entry, item) == entry # None /\ entry # Torn

\* readSemanticCache: a torn file does not parse, and a result recorded for
\* another item with the same content is not a hit.
IsHit(entry, item) == entry # None /\ entry # Torn /\ entry.item = item

Lookup(r) ==
  /\ pc[r] = "lookup"
  /\ queue[r] # <<>>
  /\ LET item == Head(queue[r])  entry == cache[Key(r, item)] IN
     IF CacheOn /\ IsHit(entry, item)
     THEN /\ cached' = [cached EXCEPT ![r] = Append(@, entry)]
          /\ UNCHANGED uncached
     ELSE /\ uncached' = [uncached EXCEPT ![r] = Append(@, item)]
          /\ UNCHANGED cached
  /\ queue' = [queue EXCEPT ![r] = Tail(@)]
  /\ UNCHANGED <<pc, batch, toRecord, fresh, failures, sent, decisions,
                 cache, answered>>

\* All looked up, or the last batch done: ask about the next batch.
Ask(r) ==
  /\ \/ pc[r] = "lookup" /\ queue[r] = <<>>
     \/ pc[r] = "next"
  /\ uncached[r] # <<>>
  /\ LET asked == NextBatch(uncached[r]) IN
     /\ batch' = [batch EXCEPT ![r] = asked]
     /\ uncached' = [uncached EXCEPT ![r] = SubSeq(@, Len(asked) + 1, Len(@))]
     /\ sent' = [sent EXCEPT ![r] = Append(@, asked)]
  /\ pc' = [pc EXCEPT ![r] = "await"]
  /\ UNCHANGED <<queue, cached, toRecord, fresh, failures, decisions, cache,
                 answered>>

\* What a response soundly says about the items asked about, and whether it
\* mentions the item once.
Sayings(r, response, asked) ==
  LET once(k) == \A j \in DOMAIN response : response[j].item = response[k].item
                                           => j = k
      said(k) == LET a == Clamped(response[k]) IN
                 <<r, a.item, a.relevance, a.confidence, once(k)>>
  IN  {said(k) : k \in {n \in DOMAIN response :
         /\ response[n].item \in asked
         /\ response[n].action \in {"KEEP", "COMPRESS", "DROP"}
         /\ response[n].relevance # NaN /\ response[n].confidence # NaN}}

\* The provider answers before the timer fires.  A response is a sequence of
\* answers, or None when it reports a failure, is no list or is missing.
Answer(r) ==
  /\ pc[r] = "await"
  /\ \E response \in Responses(batch[r]) :
       LET asked == ToSet(batch[r])
           answers == IF response = None THEN <<>> ELSE response
           valid == Sanitized(answers, asked)
           faulty == response = None \/ Len(valid) < Len(answers)
       IN  /\ toRecord' = [toRecord EXCEPT ![r] = valid]
           /\ failures' = [failures EXCEPT
                             ![r] = IF faulty /\ valid = <<>> THEN @ + 1 ELSE @]
           /\ answered' = answered \cup Sayings(r, answers, asked)
  /\ pc' = [pc EXCEPT ![r] = "record"]
  /\ UNCHANGED <<queue, cached, uncached, batch, fresh, sent, decisions,
                 cache>>

\* Mutant: a failed batch takes the results of the others with it.
FailForgetsAnswers(r) ==
  /\ pc[r] = "await"
  /\ failures' = [failures EXCEPT ![r] = @ + 1]
  /\ fresh' = [fresh EXCEPT ![r] = <<>>]
  /\ pc' = [pc EXCEPT ![r] = "next"]
  /\ UNCHANGED <<queue, cached, uncached, batch, toRecord, sent, decisions,
                 cache, answered>>

\* Mutant: a batch that timed out is asked about again.
FailRetriesBatch(r) ==
  /\ pc[r] = "await"
  /\ failures' = [failures EXCEPT ![r] = @ + 1]
  /\ uncached' = [uncached EXCEPT ![r] = batch[r] \o @]
  /\ pc' = [pc EXCEPT ![r] = "next"]
  /\ UNCHANGED <<queue, cached, batch, toRecord, fresh, sent, decisions,
                 cache, answered>>

\* Mutant: there is no timer, a provider that never answers is waited for.
FailNever(r) == FALSE /\ pc[r] = "await" /\ UNCHANGED vars

\* The call throws, or the timer fires first (withTimeout).  An answer that
\* comes later settles a promise nobody awaits.
Fail(r) ==
  /\ pc[r] = "await"
  /\ failures' = [failures EXCEPT ![r] = @ + 1]
  /\ pc' = [pc EXCEPT ![r] = "next"]
  /\ UNCHANGED <<queue, cached, uncached, batch, toRecord, fresh, sent,
                 decisions, cache, answered>>

\* The next sanitized answer becomes a result; with the cache on, its file is
\* opened for writing, which empties it, unless the directory cannot be made
\* or the file not be opened: the error is swallowed.
Record(r) ==
  /\ pc[r] = "record"
  /\ toRecord[r] # <<>>
  /\ LET result == ApplyPolicyToResult(Head(toRecord[r]), Policy[r]) IN
     /\ fresh' = [fresh EXCEPT ![r] = Append(@, result)]
     /\ \/ /\ CacheOn
           /\ cache' = [cache EXCEPT ![Key(r, result.item)] = Torn]
           /\ pc' = [pc EXCEPT ![r] = "write"]
        \/ UNCHANGED <<cache, pc>>
  /\ toRecord' = [toRecord EXCEPT ![r] = Tail(@)]
  /\ UNCHANGED <<queue, cached, uncached, batch, failures, sent, decisions,
                 answered>>

\* The key of the file a run is writing.
WriteKey(r) == Key(r, Last(fresh[r]).item)

\* Another run has the file open too, or has written it since r emptied it.
Shared(r) ==
  \/ \E o \in Runs \ {r} : pc[o] = "write" /\ WriteKey(o) = WriteKey(r)
  \/ cache[WriteKey(r)] # Torn

\* writeSemanticCache ends: the file is whole, or, when runs shared it, holds
\* one text over the rest of another; or the write fails, and the error is
\* swallowed.
Write(r) ==
  /\ pc[r] = "write"
  /\ \/ cache' = [cache EXCEPT ![WriteKey(r)] = Last(fresh[r])]
     \/ Shared(r) /\ cache' = [cache EXCEPT ![WriteKey(r)] = Torn]
     \/ UNCHANGED cache
  /\ pc' = [pc EXCEPT ![r] = "record"]
  /\ UNCHANGED <<runVars, answered>>

BatchDone(r) ==
  /\ pc[r] = "record"
  /\ toRecord[r] = <<>>
  /\ pc' = [pc EXCEPT ![r] = "next"]
  /\ UNCHANGED <<runVars, cache, answered>>

\* shouldVetoSemanticDrop
ShouldVeto(result) == result.action = "DROP" /\ result.item \in Vetoed

\* Cached and fresh results become decisions, vetoed drops excepted.
Decide(r) ==
  /\ \/ pc[r] = "lookup" /\ queue[r] = <<>>
     \/ pc[r] = "next"
  /\ uncached[r] = <<>>
  /\ LET results == cached[r] \o fresh[r] IN
     decisions' = [decisions EXCEPT
       ![r] = Kept(results, [n \in DOMAIN results |-> ~ShouldVeto(results[n])])]
  /\ pc' = [pc EXCEPT ![r] = "done"]
  /\ UNCHANGED <<queue, cached, uncached, batch, toRecord, fresh, failures,
                 sent, cache, answered>>

\* The process is killed.  A file it was writing stays as it is.
Crash(r) ==
  /\ pc[r] \notin {"done", "crashed"}
  /\ pc' = [pc EXCEPT ![r] = "crashed"]
  /\ UNCHANGED <<runVars, cache, answered>>

Step(r) == \/ Lookup(r) \/ Ask(r) \/ Answer(r) \/ Fail(r) \/ Record(r)
           \/ Write(r) \/ BatchDone(r) \/ Decide(r)

Next == \E r \in Runs : Step(r) \/ Crash(r)

Spec == Init /\ [][Next]_vars

\* The event loop runs what is ready, and the timer fires even if the provider
\* never answers; nothing obliges a process to crash.
Fairness == \A r \in Runs :
  WF_vars(Lookup(r) \/ Ask(r) \/ Fail(r) \/ Record(r) \/ Write(r)
          \/ BatchDone(r) \/ Decide(r))
FairSpec == Spec /\ Fairness

-----------------------------------------------------------------------------
(* What a run promises.                                                     *)

\* Every variable stays within the range the code gives it; a cache file holds
\* one whole result or nothing that parses.
TypeOK ==
  /\ pc \in [Runs -> {"lookup", "await", "record", "write", "next", "done",
                      "crashed"}]
  /\ queue \in [Runs -> Seq(Items)]
  /\ uncached \in [Runs -> Seq(Items)]
  /\ batch \in [Runs -> Seq(Items)]
  /\ cached \in [Runs -> Seq(Result)]
  /\ toRecord \in [Runs -> Seq(Result)]
  /\ fresh \in [Runs -> Seq(Result)]
  /\ sent \in [Runs -> Seq(Seq(Items))]
  /\ failures \in [Runs -> Nat]
  /\ decisions \in [Runs -> Seq(Result) \cup {None}]
  /\ \A r \in Runs :
       /\ IsInjective(queue[r]) /\ IsInjective(uncached[r]) /\ IsInjective(batch[r])
       /\ failures[r] <= Len(sent[r])
  /\ cache \in [Keys -> Result \cup {Torn, None}]
  /\ answered \subseteq
       Runs \X Items \X (0 .. Unit) \X (0 .. Unit) \X BOOLEAN

\* The decisions of a run that has ended.
Decided(r) == IF decisions[r] = None THEN {} ELSE ToSet(decisions[r])

\* A decision repeats a score the provider itself gave about that very item, to
\* this run or, through the cache, to another: never one of a torn file, a
\* failed or late call, or an answer about something that was not asked
\* (sanitize.ts:47-65, run.ts:162-163, 237-241).  Of a provider's repeated answers
\* the first may decide, though docs/SEMANTIC_LAYER.md:36-37 keeps the
\* deterministic decision then (sanitize.ts:51-55).
DecisionsWereAnswered ==
  \A r \in Runs : \A d \in Decided(r) :
    \E o \in IF CacheOn THEN Runs ELSE {r}, alone \in BOOLEAN :
      <<o, d.item, d.relevance, d.confidence, alone>> \in answered

\* The action of a decision is the one the run's own thresholds give its score,
\* also when it comes from the cache, where the action was stored by a run that
\* may have had other thresholds (run.ts:155-165, 217-230).
DecisionsFollowPolicy ==
  \A r \in Runs : \A d \in Decided(r) :
    d.action = ActionFromRelevance(d.relevance, d.confidence, Policy[r])

\* A run decides an item once, though candidates of equal content share a cache
\* file and a provider may repeat itself (run.ts:163, sanitize.ts:51-55).
OneDecisionPerItem ==
  \A r \in Runs : decisions[r] # None =>
    IsInjective([n \in DOMAIN decisions[r] |-> decisions[r][n].item])

\* By the end a candidate was either found in the cache or asked about in one
\* batch: none is skipped where batches are cut, none is paid for twice after a
\* failure (run.ts:149-241, batch.ts:11-36).
AskedOnceOrCached ==
  \A r \in Runs : pc[r] = "done" =>
    LET found == [n \in DOMAIN cached[r] |-> cached[r][n].item]
        asked == [b \in DOMAIN sent[r] |-> ToSet(sent[r][b])]
    IN  /\ IsInjective(found) /\ \A b \in DOMAIN asked : IsInjective(sent[r][b])
        /\ \A b \in DOMAIN asked : asked[b] \cap ToSet(found) = {}
        /\ \A b, c \in DOMAIN asked : b # c => asked[b] \cap asked[c] = {}
        /\ Items = ToSet(found) \cup UNION {asked[b] : b \in DOMAIN asked}

\* One batch failing does not cost the answers of another: what the provider
\* said of an item, once and in time, is decided, unless and only unless it would
\* drop what a rule retains (run.ts:187-241, 249-270, apply.ts:38-56).
FailuresStayLocal ==
  \A r \in Runs : pc[r] = "done" => \A said \in answered :
    (said[1] = r /\ said[5])
      => LET drops == ActionFromRelevance(said[3], said[4], Policy[r]) = "DROP" IN
         (\E d \in Decided(r) : d.item = said[2])
           <=> ~(drops /\ said[2] \in Vetoed)

\* A run ends whether or not the provider ever answers (run.ts:53-67).
RunsEnd == \A r \in Runs : <>(pc[r] \in {"done", "crashed"})
=============================================================================
