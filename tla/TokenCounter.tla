---------------------------- MODULE TokenCounter ----------------------------
(***************************************************************************)
(* context/tokenizer.py, GeminiTokenCounter: token counts of texts and of  *)
(* whole requests, cached in the memory of the process (two lru_caches)    *)
(* and in an SQLite file that processes share, and fetched from the        *)
(* CountTokens service with retries.  benchmark/runner.py runs every cell  *)
(* of an experiment inside isolated_cache.                                 *)
(*                                                                         *)
(* A process counts one text at a time; processes interleave between the   *)
(* read of the file, every attempt at the service and the write of the     *)
(* file.  The service always counts the same input the same way.  Which    *)
(* entry an lru_cache evicts is left open.  api_calls and retry_count are  *)
(* kept as what one call adds to them; cache hits are not counted.         *)
(***************************************************************************)
EXTENDS Integers, FiniteSets

CONSTANTS Counter,        \* the processes with a counter
          Persistent,     \* those that were given persistent_cache_path
          Runner,         \* those that run experiments; the others generate scenarios
          Model, Text,
          Empty,          \* the text ""
          Config,         \* request configurations
          Size(_, _, _),  \* what the service counts for a model, a text and a configuration
          CacheSize,      \* cache_size
          MaxRetries,     \* max_retries
          None

ASSUME CounterAssumption ==
  /\ Persistent \subseteq Counter /\ Runner \subseteq Counter
  /\ Empty \in Text
  /\ CacheSize \in Nat /\ MaxRetries \in Nat
  /\ None \notin Nat \cup Config
  /\ \A m \in Model, t \in Text, k \in Config \cup {None} : Size(m, t, k) \in Nat

VARIABLES
  rows,      \* token_cache, the table of the file
  model,     \* model
  texts,     \* _cached_count
  requests,  \* _cached_request_count
  config,    \* _request_count_config
  file,      \* is _persistent_cache_path set?
  original,  \* original_path of isolated_cache, or None outside of it
  call,      \* the call that is under way, or None
  last,      \* how the call ended that ended with the last step, or None
  fetched    \* history: the texts the service counted in this isolated_cache

caches   == <<texts, requests>>
settings == <<model, config, file, original>>
vars     == <<rows, caches, settings, call, last, fetched>>

Count == Nat \cup {None}
Faults == {"transient", "fatal", "interrupted"}
\* entry: was it count_request that was called?  with: the configuration sent.
Calls == [text : Text, entry : {"text", "request"}, with : Config \cup {None},
          step : {"read", "ask", "write"}, count : Count, calls : Nat, retries : Nat]
Ends == [by : Counter, text : Text, with : Config \cup {None}, count : Count, fault : Faults \cup {None},
         calls : Nat, retries : Nat]

\* None is Python's None: no value that a variable can have besides it.
ASSUME NoneAssumption ==
  None \notin BOOLEAN /\ None \notin Faults /\ None \notin Calls /\ None \notin Ends

NoCounts == [t \in Text |-> None]
Held(cache) == {t \in Text : cache[t] # None}
Isolated(c) == original[c] # None

\* Faulty variant: the cache grows without bound.
StoredForever(cache, t, n) == {[cache EXCEPT ![t] = n]}

\* What lru_cache may hold after n was computed for t.
Stored(cache, t, n) ==
  LET others == Held(cache) \ {t}
  IN  IF CacheSize = 0 THEN {cache}
      ELSE IF Cardinality(others) < CacheSize THEN {[cache EXCEPT ![t] = n]}
      ELSE {[cache EXCEPT ![t] = n, ![victim] = None] : victim \in others}

Remember(cache, c, t, n) ==
  \E stored \in Stored(cache[c], t, n) : cache' = [cache EXCEPT ![c] = stored]

End(c, t, k, n, fault, calls, retries) ==
  last' = [by |-> c, text |-> t, with |-> k, count |-> n, fault |-> fault,
           calls |-> calls, retries |-> retries]

Silent == last' = None

Answer(c, t, k, n) == End(c, t, k, n, None, 0, 0) /\ UNCHANGED call

Begin(c, t, entry, k, step) ==
  /\ call' = [call EXCEPT ![c] = [text |-> t, entry |-> entry, with |-> k, step |-> step,
                                  count |-> None, calls |-> 0, retries |-> 0]]
  /\ Silent

-----------------------------------------------------------------------------
(* The calls *)

CountText(c, t) ==
  /\ call[c] = None
  /\ \/ t = Empty /\ Answer(c, t, None, 0)
     \/ t # Empty /\ texts[c][t] # None /\ Answer(c, t, None, texts[c][t])
     \/ t # Empty /\ texts[c][t] = None /\ Begin(c, t, "text", None, "read")
  /\ UNCHANGED <<rows, caches, settings, fetched>>

\* Without a configuration a request is counted like its text.
CountRequest(c, t) ==
  /\ call[c] = None
  /\ \/ /\ requests[c][t] # None
        /\ Answer(c, t, config[c], requests[c][t])
        /\ UNCHANGED requests
     \/ /\ requests[c][t] = None /\ config[c] = None
        /\ t = Empty \/ texts[c][t] # None
        /\ LET n == IF t = Empty THEN 0 ELSE texts[c][t]
           IN  Answer(c, t, None, n) /\ Remember(requests, c, t, n)
     \/ /\ requests[c][t] = None /\ config[c] = None
        /\ t # Empty /\ texts[c][t] = None
        /\ Begin(c, t, "request", None, "read")
        /\ UNCHANGED requests
     \/ /\ requests[c][t] = None /\ config[c] # None
        /\ Begin(c, t, "request", config[c], "ask")
        /\ UNCHANGED requests
  /\ UNCHANGED <<rows, texts, settings, fetched>>

\* The call returns n, and the caches it went through keep n.
Return(c, n, calls) ==
  LET k == call[c]
  IN  /\ IF k.with = None THEN Remember(texts, c, k.text, n) ELSE UNCHANGED texts
      /\ IF k.entry = "request" THEN Remember(requests, c, k.text, n) ELSE UNCHANGED requests
      /\ End(c, k.text, k.with, n, None, calls, k.retries)
      /\ call' = [call EXCEPT ![c] = None]

\* The call raises: no cache keeps anything.
Raise(c, fault, calls) ==
  /\ End(c, call[c].text, call[c].with, None, fault, calls, call[c].retries)
  /\ call' = [call EXCEPT ![c] = None]
  /\ UNCHANGED caches

GoOn(c, k) == call' = [call EXCEPT ![c] = k] /\ Silent /\ UNCHANGED caches

At(c, step) == call[c] # None /\ call[c].step = step

Row(c) == rows[model[c]][call[c].text]

ReadFile(c) ==
  /\ At(c, "read")
  /\ \/ file[c] /\ Row(c) # None /\ Return(c, Row(c), 0)
     \/ /\ file[c] => Row(c) = None
        /\ GoOn(c, [call[c] EXCEPT !.step = "ask"])
  /\ UNCHANGED <<rows, settings, fetched>>

\* The file cannot be read or written.
FileFails(c) ==
  /\ At(c, "read") \/ At(c, "write")
  /\ file[c]
  /\ Raise(c, "fatal", call[c].calls)
  /\ UNCHANGED <<rows, settings, fetched>>

Attempts(c) == call[c].calls + 1

\* A text goes on to the file, a request with a configuration does not.
ServiceCounts(c) ==
  /\ At(c, "ask")
  /\ LET n == Size(model[c], call[c].text, call[c].with)
     IN  \/ /\ call[c].with = None
            /\ GoOn(c, [call[c] EXCEPT !.step = "write", !.count = n, !.calls = Attempts(c)])
         \/ call[c].with # None /\ Return(c, n, Attempts(c))
  /\ fetched' = [fetched EXCEPT ![c] = IF Isolated(c) THEN @ \cup {call[c].text} ELSE @]
  /\ UNCHANGED <<rows, settings>>

\* Faulty variant: one attempt too many is slept on.
SleptOnLast(c) == Attempts(c) > MaxRetries + 1

LastAttempt(c) == Attempts(c) > MaxRetries

\* An answer without a valid number is a fatal error too.
ServiceFails(c, fault) ==
  /\ At(c, "ask")
  /\ \/ /\ fault = "transient" /\ ~LastAttempt(c)
        /\ GoOn(c, [call[c] EXCEPT !.calls = Attempts(c), !.retries = @ + 1])
     \/ /\ fault = "fatal" \/ LastAttempt(c)
        /\ Raise(c, fault, Attempts(c))
  /\ UNCHANGED <<rows, settings, fetched>>

\* The rows with the count of the call among them.
Committed(c) ==
  IF file[c] THEN [rows EXCEPT ![model[c]][call[c].text] = call[c].count] ELSE rows

WriteFile(c) ==
  /\ At(c, "write")
  /\ rows' = Committed(c)
  /\ Return(c, call[c].count, call[c].calls)
  /\ UNCHANGED <<settings, fetched>>

\* KeyboardInterrupt: between two steps of a call, or after the row is committed
\* and before the call has returned.
Interrupt(c) ==
  /\ call[c] # None
  /\ rows' = rows \/ (At(c, "write") /\ rows' = Committed(c))
  /\ Raise(c, "interrupted", call[c].calls)
  /\ UNCHANGED <<settings, fetched>>

-----------------------------------------------------------------------------
(* The settings *)

\* Faulty variant: the counts of the old configuration stay.
ConfigureOnly(c, k) ==
  /\ call[c] = None
  /\ config' = [config EXCEPT ![c] = k]
  /\ Silent
  /\ UNCHANGED <<rows, caches, model, file, original, call, fetched>>

ConfigureRequest(c, k) ==
  /\ call[c] = None
  /\ config' = [config EXCEPT ![c] = k]
  /\ requests' = [requests EXCEPT ![c] = NoCounts]
  /\ Silent
  /\ UNCHANGED <<rows, texts, model, file, original, call, fetched>>

EmptyCaches(c) ==
  /\ texts' = [texts EXCEPT ![c] = NoCounts]
  /\ requests' = [requests EXCEPT ![c] = NoCounts]

ClearCache(c) ==
  /\ call[c] = None
  /\ EmptyCaches(c)
  /\ Silent
  /\ UNCHANGED <<rows, settings, call, fetched>>

ClearPersistentCache(c) ==
  /\ call[c] = None
  /\ file[c]
  /\ rows' = [rows EXCEPT ![model[c]] = NoCounts]
  /\ Silent
  /\ UNCHANGED <<caches, settings, call, fetched>>

\* Faulty variant: the counts from before stay.
EnterWithCounts(c) ==
  /\ call[c] = None /\ ~Isolated(c)
  /\ original' = [original EXCEPT ![c] = file[c]]
  /\ file' = [file EXCEPT ![c] = FALSE]
  /\ fetched' = [fetched EXCEPT ![c] = {}]
  /\ Silent
  /\ UNCHANGED <<rows, caches, model, config, call>>

\* The runner never nests isolated_cache.
EnterIsolation(c) ==
  /\ call[c] = None /\ ~Isolated(c)
  /\ original' = [original EXCEPT ![c] = file[c]]
  /\ EmptyCaches(c)
  /\ file' = [file EXCEPT ![c] = FALSE]
  /\ fetched' = [fetched EXCEPT ![c] = {}]
  /\ Silent
  /\ UNCHANGED <<rows, model, config, call>>

\* The finally clause: after the work and after an exception alike.
LeaveIsolation(c) ==
  /\ call[c] = None /\ Isolated(c)
  /\ EmptyCaches(c)
  /\ file' = [file EXCEPT ![c] = original[c]]
  /\ original' = [original EXCEPT ![c] = None]
  /\ fetched' = [fetched EXCEPT ![c] = {}]
  /\ Silent
  /\ UNCHANGED <<rows, model, config, call>>

\* The process ends, at any point, and another one is started with model m.
Restart(c, m) ==
  /\ model' = [model EXCEPT ![c] = m]
  /\ EmptyCaches(c)
  /\ config' = [config EXCEPT ![c] = None]
  /\ file' = [file EXCEPT ![c] = c \in Persistent]
  /\ original' = [original EXCEPT ![c] = None]
  /\ call' = [call EXCEPT ![c] = None]
  /\ Silent
  /\ fetched' = [fetched EXCEPT ![c] = {}]
  /\ UNCHANGED rows

-----------------------------------------------------------------------------

Init ==
  /\ rows = [m \in Model |-> NoCounts]
  /\ model \in [Counter -> Model]
  /\ texts = [c \in Counter |-> NoCounts] /\ requests = [c \in Counter |-> NoCounts]
  /\ config = [c \in Counter |-> None]
  /\ file = [c \in Counter |-> c \in Persistent]
  /\ original = [c \in Counter |-> None]
  /\ call = [c \in Counter |-> None] /\ last = None
  /\ fetched = [c \in Counter |-> {}]

Work(c) ==
  \/ \E t \in Text : CountText(c, t) \/ CountRequest(c, t)
  \/ ReadFile(c) \/ FileFails(c) \/ WriteFile(c) \/ Interrupt(c)
  \/ ServiceCounts(c) \/ (\E fault \in {"transient", "fatal"} : ServiceFails(c, fault))

Manage(c) == ClearCache(c) \/ ClearPersistentCache(c) \/ \E m \in Model : Restart(c, m)

\* benchmark/generator.py neither configures its counter nor isolates it.
Experiment(c) ==
  \/ \E k \in Config \cup {None} : ConfigureRequest(c, k)
  \/ EnterIsolation(c) \/ LeaveIsolation(c)

Next ==
  \/ \E c \in Counter : Work(c) \/ Manage(c)
  \/ \E c \in Runner : Experiment(c)

Spec == Init /\ [][Next]_vars

-----------------------------------------------------------------------------
(* Properties *)

TypeOK ==
  /\ rows \in [Model -> [Text -> Count]]
  /\ model \in [Counter -> Model]
  /\ texts \in [Counter -> [Text -> Count]] /\ requests \in [Counter -> [Text -> Count]]
  /\ \A c \in Counter : Cardinality(Held(texts[c])) <= CacheSize
                       /\ Cardinality(Held(requests[c])) <= CacheSize
  /\ config \in [Counter -> Config \cup {None}]
  /\ file \in [Counter -> BOOLEAN] /\ original \in [Counter -> BOOLEAN \cup {None}]
  /\ call \in [Counter -> Calls \cup {None}] /\ last \in Ends \cup {None}
  /\ fetched \in [Counter -> SUBSET Text]

Right(m, t, k) == IF t = Empty /\ k = None THEN 0 ELSE Size(m, t, k)

\* Whatever was configured, cleared, interrupted or restarted before, and
\* whichever process wrote it: every cached and every answered count is what
\* the service counts for this text with the present model and configuration.
CountsAreRight ==
  /\ \A m \in Model, t \in Text : rows[m][t] \in {None, Size(m, t, None)}
  /\ \A c \in Counter, t \in Text :
       /\ texts[c][t] \in {None, Size(model[c], t, None)}
       /\ requests[c][t] \in {None, Right(model[c], t, config[c])}
  /\ last # None /\ last.fault = None => last.count = Right(model[last.by], last.text, last.with)

\* isolated_cache "removes the cache advantage between runs" and "leaves the
\* SQLite file unchanged": inside, every count was fetched inside; the rows of
\* a model change only if a process with that model is outside; and afterwards
\* the file is back and no count of the run is left.
IsolationSealed ==
  [][/\ \A m \in Model : (\A c \in Counter : model[c] = m => Isolated(c)) => rows'[m] = rows[m]
     /\ \A c \in Counter :
          /\ Isolated(c)' => Held(texts'[c]) \cup Held(requests'[c]) \subseteq fetched'[c] \cup {Empty}
          /\ Isolated(c) /\ ~Isolated(c)' =>
               /\ Held(texts'[c]) \cup Held(requests'[c]) = {}
               /\ file'[c] = (c \in Persistent)]_vars

\* A call makes at most max_retries + 1 attempts, sleeps between two of them
\* and never after the last one, and gives a transient error to the caller only
\* when no attempt is left.
AttemptsAccounted ==
  last # None =>
    /\ last.calls <= MaxRetries + 1
    /\ last.fault = "transient" => last.calls = MaxRetries + 1
    /\ last.fault # "interrupted" /\ last.calls > 0 => last.retries = last.calls - 1

=============================================================================
