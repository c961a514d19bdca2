------------------------- MODULE TokenCounterProofs -------------------------
(***************************************************************************)
(* Proofs about TokenCounter, for every set of processes, models, texts    *)
(* and configurations, every cache size and every number of retries.       *)
(*                                                                         *)
(* IInv adds to the properties what a call has in hand between two steps,  *)
(* and which caches an isolated process can hold.  It is local to one      *)
(* process but for the rows of the file, which all of them share.          *)
(***************************************************************************)
EXTENDS TokenCounter, FiniteSetTheorems, TLAPS

USE CounterAssumption, NoneAssumption

\* A cache holds at most cache_size entries.
Bounded(cache) == IsFiniteSet(Held(cache)) /\ Cardinality(Held(cache)) <= CacheSize

\* new is old with n for t, and perhaps with less in it.
Refill(new, old, t, n) ==
  /\ new \in [Text -> Count]
  /\ Bounded(new)
  /\ \A s \in Text : new[s] \in {None, old[s]} \/ (s = t /\ new[s] = n)

\* What an lru_cache holds after n was computed for t: n and old entries, of
\* which one may have had to go; nothing new when the cache is off.
LEMMA StoredRefills ==
  ASSUME NEW old \in [Text -> Count], Bounded(old), NEW t \in Text, NEW n \in Nat,
         NEW new \in Stored(old, t, n)
  PROVE  Refill(new, old, t, n)
<1> DEFINE others == Held(old) \ {t}
<1>1. /\ IsFiniteSet(others) /\ Cardinality(others) \in Nat
      /\ Cardinality(others) <= Cardinality(Held(old))
      /\ Cardinality(Held(old)) \in Nat
  BY FS_Subset, FS_CardinalityType DEF Bounded
<1>2. CASE CacheSize = 0
  <2>1. new = old
    BY <1>2 DEF Stored
  <2> QED BY <2>1 DEF Refill
<1>3. CASE CacheSize # 0 /\ Cardinality(others) < CacheSize
  <2>1. new = [old EXCEPT ![t] = n]
    BY <1>3 DEF Stored
  <2>2. Held(new) = others \cup {t}
    BY <2>1 DEF Held, Count
  <2>3. t \notin others
    OBVIOUS
  <2>4. IsFiniteSet(Held(new)) /\ Cardinality(Held(new)) = Cardinality(others) + 1
    <3> HIDE DEF others
    <3>1. /\ IsFiniteSet(others \cup {t})
          /\ Cardinality(others \cup {t}) = Cardinality(others) + 1
      BY <1>1, <2>3, FS_AddElement, Zenon
    <3> QED BY <2>2, <3>1
  <2>5. Bounded(new)
    BY <1>1, <1>3, <2>4 DEF Bounded
  <2> QED BY <2>1, <2>5 DEF Refill, Count
<1>4. CASE CacheSize # 0 /\ ~(Cardinality(others) < CacheSize)
  <2>1. PICK victim \in others : new = [old EXCEPT ![t] = n, ![victim] = None]
    BY <1>4 DEF Stored
  <2>2. victim \in Text /\ victim # t
    BY DEF Held
  <2>3. Held(new) = (others \ {victim}) \cup {t}
    BY <2>1, <2>2 DEF Held, Count
  <2>4. IsFiniteSet(others \ {victim}) /\ Cardinality(others \ {victim}) = Cardinality(others) - 1
    BY <1>1, FS_RemoveElement
  <2>5. t \notin others \ {victim}
    OBVIOUS
  <2>6. /\ IsFiniteSet((others \ {victim}) \cup {t})
        /\ Cardinality((others \ {victim}) \cup {t}) = Cardinality(others \ {victim}) + 1
    BY <2>4, <2>5, FS_AddElement, Zenon
  <2>7. Bounded(new)
    BY <1>1, <2>3, <2>4, <2>6 DEF Bounded
  <2>8. new \in [Text -> Count]
    BY <2>1, <2>2 DEF Count
  <2>9. \A s \in Text : new[s] = IF s = victim THEN None ELSE IF s = t THEN n ELSE old[s]
    BY <2>1, <2>2
  <2> QED BY <2>7, <2>8, <2>9 DEF Refill
<1> QED BY <1>2, <1>3, <1>4

-----------------------------------------------------------------------------
(* The inductive invariant *)

\* Every variable has its type; TypeOK's bounds on the caches are in CachesRight.
Typed ==
  /\ rows \in [Model -> [Text -> Count]]
  /\ model \in [Counter -> Model]
  /\ texts \in [Counter -> [Text -> Count]] /\ requests \in [Counter -> [Text -> Count]]
  /\ config \in [Counter -> Config \cup {None}]
  /\ file \in [Counter -> BOOLEAN] /\ original \in [Counter -> BOOLEAN \cup {None}]
  /\ call \in [Counter -> Calls \cup {None}] /\ last \in Ends \cup {None}
  /\ fetched \in [Counter -> SUBSET Text]

\* What the file holds, whoever wrote it.
RowsRight == \A m \in Model, t \in Text : rows[m][t] \in {None, Size(m, t, None)}

\* What the two caches of a process hold.
CachesRight(c) ==
  /\ Bounded(texts[c]) /\ Bounded(requests[c])
  /\ \A t \in Text : /\ texts[c][t] \in {None, Size(model[c], t, None)}
                     /\ requests[c][t] \in {None, Right(model[c], t, config[c])}

\* What a call that is under way has in hand.
CallRight(c) ==
  call[c] # None =>
    /\ call[c].with = IF call[c].entry = "text" THEN None ELSE config[c]
    /\ call[c].with = None => call[c].text # Empty
    /\ call[c].with # None => call[c].step = "ask"
    /\ call[c].step = "read" => call[c].calls = 0
    /\ call[c].step # "write" => call[c].calls = call[c].retries /\ call[c].calls <= MaxRetries
    /\ call[c].step = "write" =>
         /\ call[c].count = Size(model[c], call[c].text, None)
         /\ call[c].calls = call[c].retries + 1 /\ call[c].calls <= MaxRetries + 1

\* An isolated process is off the file and holds only what it fetched itself.
Sealed(c) ==
  /\ Isolated(c) =>
       /\ file[c] = FALSE
       /\ original[c] = (c \in Persistent)
       /\ Held(texts[c]) \cup Held(requests[c]) \subseteq fetched[c] \cup {Empty}
       /\ call[c] # None /\ call[c].step = "write" => call[c].text \in fetched[c]
  /\ ~Isolated(c) => file[c] = (c \in Persistent)

Local(c) == CachesRight(c) /\ CallRight(c) /\ Sealed(c)

LastRight ==
  /\ last # None /\ last.fault = None => last.count = Right(model[last.by], last.text, last.with)
  /\ AttemptsAccounted

IInv == Typed /\ RowsRight /\ (\A c \in Counter : Local(c)) /\ LastRight

\* A step of another process leaves all of c's state alone.
Same(c) ==
  /\ model'[c] = model[c] /\ texts'[c] = texts[c] /\ requests'[c] = requests[c]
  /\ config'[c] = config[c] /\ file'[c] = file[c] /\ original'[c] = original[c]
  /\ call'[c] = call[c] /\ fetched'[c] = fetched[c]

\* A process keeps its part of the invariant when nothing of it changes.
LEMMA OthersKeep ==
  ASSUME NEW c \in Counter, Local(c), Same(c)
  PROVE  Local(c)'
<1>1. CachesRight(c)'
  BY DEF Local, Same, CachesRight, Bounded, Held, Right
<1>2. CallRight(c)'
  BY DEF Local, Same, CallRight
<1>3. Sealed(c)'
  BY DEF Local, Same, Sealed, Held, Isolated
<1> QED BY <1>1, <1>2, <1>3 DEF Local

LEMMA InitIInv == Init => IInv
<1> SUFFICES ASSUME Init PROVE IInv
  OBVIOUS
<1>0. Held(NoCounts) = {}
  BY DEF NoCounts, Held
<1>1. Held(NoCounts) = {} /\ Bounded(NoCounts)
  BY <1>0, FS_EmptySet DEF Bounded
<1>2. NoCounts \in [Text -> Count]
  BY DEF NoCounts, Count
<1>3. Typed
  BY <1>2 DEF Init, Typed
<1>4. RowsRight
  BY DEF Init, RowsRight, NoCounts
<1>5. ASSUME NEW c \in Counter PROVE Local(c)
  BY <1>1 DEF Init, Local, CachesRight, CallRight, Sealed, Isolated, NoCounts
<1>6. LastRight
  BY DEF Init, LastRight, AttemptsAccounted
<1> QED BY <1>3, <1>4, <1>5, <1>6 DEF IInv

-----------------------------------------------------------------------------
(* How a call ends *)

\* A cache that takes in a right count stays right, and holds nothing new else.
LEMMA RememberRefills ==
  ASSUME NEW cache \in [Counter -> [Text -> Count]], NEW cache1, NEW c \in Counter,
         Bounded(cache[c]), NEW t \in Text, NEW n \in Nat,
         NEW stored \in Stored(cache[c], t, n), cache1 = [cache EXCEPT ![c] = stored]
  PROVE  /\ cache1 \in [Counter -> [Text -> Count]]
         /\ Refill(cache1[c], cache[c], t, n)
         /\ \A d \in Counter \ {c} : cache1[d] = cache[d]
<1>1. Refill(stored, cache[c], t, n)
  BY StoredRefills
<1> QED BY <1>1 DEF Refill

\* What the caches are like after n was returned for text t.
Refilled(c, t, n) ==
  /\ texts' \in [Counter -> [Text -> Count]] /\ requests' \in [Counter -> [Text -> Count]]
  /\ Refill(texts'[c], texts[c], t, n) \/ texts'[c] = texts[c]
  /\ Refill(requests'[c], requests[c], t, n) \/ requests'[c] = requests[c]
  /\ \A d \in Counter \ {c} : texts'[d] = texts[d] /\ requests'[d] = requests[d]

\* What a call computed enters no cache but the two it belongs to: that of texts if
\* it has no configuration, that of requests if it counts one.
LEMMA ReturnRefills ==
  ASSUME Typed, NEW c \in Counter, Local(c), call[c] # None, NEW n \in Nat, NEW calls, Return(c, n, calls)
  PROVE  /\ Refilled(c, call[c].text, n)
         /\ call[c].with # None => texts' = texts
         /\ call[c].entry # "request" => requests' = requests
<1>1. call[c] \in Calls
  BY DEF Typed
<1>2. call[c].text \in Text
  BY <1>1 DEF Calls
<1>3. Bounded(texts[c]) /\ Bounded(requests[c])
  BY DEF Local, CachesRight
<1>4. \/ call[c].with # None /\ texts' = texts
      \/ /\ texts' \in [Counter -> [Text -> Count]]
         /\ Refill(texts'[c], texts[c], call[c].text, n)
         /\ \A d \in Counter \ {c} : texts'[d] = texts[d]
         /\ call[c].with = None
  <2>1. CASE call[c].with = None
    <3>1. Remember(texts, c, call[c].text, n)
      BY <2>1 DEF Return
    <3>2. texts \in [Counter -> [Text -> Count]]
      BY DEF Typed
    <3>3. PICK stored \in Stored(texts[c], call[c].text, n) : texts' = [texts EXCEPT ![c] = stored]
      BY <3>1 DEF Remember
    <3> QED BY <1>2, <1>3, <2>1, <3>2, <3>3, RememberRefills
  <2>2. CASE call[c].with # None
    BY <2>2 DEF Return
  <2> QED BY <2>1, <2>2
<1>5. \/ call[c].entry # "request" /\ requests' = requests
      \/ /\ requests' \in [Counter -> [Text -> Count]]
         /\ Refill(requests'[c], requests[c], call[c].text, n)
         /\ \A d \in Counter \ {c} : requests'[d] = requests[d]
         /\ call[c].entry = "request"
  <2>1. CASE call[c].entry = "request"
    <3>1. Remember(requests, c, call[c].text, n)
      BY <2>1 DEF Return
    <3>2. requests \in [Counter -> [Text -> Count]]
      BY DEF Typed
    <3>3. PICK stored \in Stored(requests[c], call[c].text, n) : requests' = [requests EXCEPT ![c] = stored]
      BY <3>1 DEF Remember
    <3> QED BY <1>2, <1>3, <2>1, <3>2, <3>3, RememberRefills
  <2>2. CASE call[c].entry # "request"
    BY <2>2 DEF Return
  <2> QED BY <2>1, <2>2
<1> QED BY <1>4, <1>5 DEF Refilled, Typed

\* A call that returns the right count keeps everything in order.
LEMMA ReturnKeeps ==
  ASSUME Typed, NEW c \in Counter, Local(c), call[c] # None,
         NEW n \in Nat, n = Size(model[c], call[c].text, call[c].with),
         NEW calls \in Nat, Return(c, n, calls),
         calls <= MaxRetries + 1, calls > 0 => call[c].retries = calls - 1,
         UNCHANGED settings,
         fetched' \in [Counter -> SUBSET Text], \A d \in Counter \ {c} : fetched'[d] = fetched[d],
         fetched[c] \subseteq fetched'[c], Isolated(c) => call[c].text \in fetched'[c]
  PROVE  /\ texts' \in [Counter -> [Text -> Count]] /\ requests' \in [Counter -> [Text -> Count]]
         /\ call' \in [Counter -> Calls \cup {None}] /\ last' \in Ends
         /\ Local(c)' /\ LastRight' /\ \A d \in Counter \ {c} : Same(d)
<1>1. /\ call[c] \in Calls /\ call[c].text \in Text /\ call[c].with \in Config \cup {None}
      /\ call[c].retries \in Nat /\ call[c].entry \in {"text", "request"}
  BY DEF Typed, Calls
<1>2. /\ Refilled(c, call[c].text, n)
      /\ call[c].with # None => texts' = texts
      /\ call[c].entry # "request" => requests' = requests
  BY ReturnRefills
<1>3. /\ call' = [call EXCEPT ![c] = None]
      /\ last' = [by |-> c, text |-> call[c].text, with |-> call[c].with, count |-> n,
                  fault |-> None, calls |-> calls, retries |-> call[c].retries]
      /\ model' = model /\ config' = config /\ file' = file /\ original' = original
  BY DEF Return, End, settings
<1>4. call' \in [Counter -> Calls \cup {None}] /\ call'[c] = None /\ last' \in Ends
  <2>1. last' \in Ends
    BY <1>1, <1>3 DEF Ends, Count
  <2> QED BY <1>1, <1>3, <2>1 DEF Typed
<1>5. CachesRight(c)'
  <2>1. Right(model[c], call[c].text, call[c].with) = n
    BY <1>1 DEF Right, Local, CallRight
  <2>2. call[c].entry = "request" => call[c].with = config[c]
    BY DEF Local, CallRight
  <2>3. \A t \in Text : texts'[c][t] \in {None, Size(model[c], t, None)}
    BY <1>2 DEF Refilled, Refill, Local, CachesRight
  <2>4. \A t \in Text : requests'[c][t] \in {None, Right(model[c], t, config[c])}
    BY <1>2, <2>1, <2>2 DEF Refilled, Refill, Local, CachesRight
  <2>5. Bounded(texts'[c]) /\ Bounded(requests'[c])
    BY <1>2 DEF Refilled, Refill, Local, CachesRight
  <2>6. model'[c] = model[c] /\ config'[c] = config[c]
    BY <1>3
  <2> QED BY <2>3, <2>4, <2>5, <2>6 DEF CachesRight, Bounded, Held, Right
<1>6. Sealed(c)'
  <2>1. Held(texts'[c]) \subseteq Held(texts[c]) \cup {call[c].text}
    BY <1>2 DEF Refilled, Refill, Held
  <2>2. Held(requests'[c]) \subseteq Held(requests[c]) \cup {call[c].text}
    BY <1>2 DEF Refilled, Refill, Held
  <2> QED BY <1>3, <1>4, <2>1, <2>2 DEF Sealed, Local, Isolated, Held
<1>7. CallRight(c)'
  BY <1>4 DEF CallRight
<1>8. LastRight'
  <2>1. Right(model[c], call[c].text, call[c].with) = n
    BY <1>1 DEF Right, Local, CallRight
  <2> QED BY <1>1, <1>3, <2>1 DEF LastRight, AttemptsAccounted, Right, Faults
<1>9. \A d \in Counter \ {c} : Same(d)
  BY <1>2, <1>3 DEF Same, Refilled, Typed
<1> QED BY <1>2, <1>4, <1>5, <1>6, <1>7, <1>8, <1>9 DEF Local, Refilled

\* A call that raises changes no cache.
LEMMA RaiseKeeps ==
  ASSUME Typed, NEW c \in Counter, Local(c), call[c] # None,
         NEW fault \in Faults, NEW calls \in Nat, Raise(c, fault, calls),
         calls <= MaxRetries + 1, fault = "transient" => calls = MaxRetries + 1,
         fault # "interrupted" /\ calls > 0 => call[c].retries = calls - 1,
         UNCHANGED <<settings, fetched>>
  PROVE  /\ call' \in [Counter -> Calls \cup {None}] /\ last' \in Ends
         /\ Local(c)' /\ LastRight' /\ \A d \in Counter \ {c} : Same(d)
<1>1. /\ call[c] \in Calls /\ call[c].text \in Text /\ call[c].with \in Config \cup {None}
      /\ call[c].retries \in Nat
  BY DEF Typed, Calls
<1>2. /\ call' = [call EXCEPT ![c] = None]
      /\ last' = [by |-> c, text |-> call[c].text, with |-> call[c].with, count |-> None,
                  fault |-> fault, calls |-> calls, retries |-> call[c].retries]
      /\ texts' = texts /\ requests' = requests /\ fetched' = fetched
      /\ model' = model /\ config' = config /\ file' = file /\ original' = original
  BY DEF Raise, End, caches, settings
<1>3. call' \in [Counter -> Calls \cup {None}] /\ call'[c] = None
  BY <1>2 DEF Typed
<1>4. last' \in Ends
  BY <1>1, <1>2 DEF Ends, Count
<1>5. CachesRight(c)'
  BY <1>2 DEF Local, CachesRight, Bounded, Held, Right
<1>6. CallRight(c)'
  BY <1>3 DEF CallRight
<1>7. Sealed(c)'
  BY <1>2, <1>3 DEF Local, Sealed, Isolated, Held
<1>8. LastRight'
  BY <1>1, <1>2 DEF LastRight, AttemptsAccounted
<1>9. \A d \in Counter \ {c} : Same(d)
  BY <1>2 DEF Same, Typed
<1> QED BY <1>3, <1>4, <1>5, <1>6, <1>7, <1>8, <1>9 DEF Local

\* The call goes on: the caches stay, and the call is in order as it is now.
LEMMA GoOnKeeps ==
  ASSUME Typed, NEW c \in Counter, Local(c), NEW k \in Calls,
         call' = [call EXCEPT ![c] = k], last' = None, UNCHANGED <<caches, settings>>,
         CallRight(c)',
         fetched' \in [Counter -> SUBSET Text], \A d \in Counter \ {c} : fetched'[d] = fetched[d],
         fetched[c] \subseteq fetched'[c],
         Isolated(c) /\ k.step = "write" => k.text \in fetched'[c]
  PROVE  /\ call' \in [Counter -> Calls \cup {None}] /\ last' = None
         /\ Local(c)' /\ LastRight' /\ \A d \in Counter \ {c} : Same(d)
<1>1. /\ texts' = texts /\ requests' = requests
      /\ model' = model /\ config' = config /\ file' = file /\ original' = original
  BY DEF caches, settings
<1>2. call' \in [Counter -> Calls \cup {None}] /\ call'[c] = k
  BY DEF Typed
<1>3. CachesRight(c)'
  BY <1>1 DEF Local, CachesRight, Bounded, Held, Right
<1>4. Sealed(c)'
  BY <1>1, <1>2 DEF Local, Sealed, Isolated, Held
<1>5. LastRight'
  BY DEF LastRight, AttemptsAccounted
<1>6. \A d \in Counter \ {c} : Same(d)
  BY <1>1 DEF Same, Typed
<1> QED BY <1>2, <1>3, <1>4, <1>5, <1>6 DEF Local

\* With OthersKeep: what is to be shown of a step.
LEMMA Assemble ==
  ASSUME IInv, NEW c \in Counter, Typed', RowsRight', Local(c)', LastRight',
         \A d \in Counter \ {c} : Same(d)
  PROVE  IInv'
<1>1. \A d \in Counter \ {c} : Local(d)'
  BY OthersKeep DEF IInv
<1> QED BY <1>1 DEF IInv

-----------------------------------------------------------------------------
(* The calls *)

LEMMA CountTextKeeps == ASSUME IInv, NEW c \in Counter, NEW t \in Text, CountText(c, t) PROVE IInv'
<1>1. /\ Typed /\ Local(c) /\ CachesRight(c) /\ call[c] = None
      /\ UNCHANGED <<rows, caches, settings, fetched>>
  BY DEF IInv, Local, CountText
<1>2. RowsRight'
  BY <1>1 DEF IInv, RowsRight
<1>3. ASSUME NEW n \in Nat, Answer(c, t, None, n), n = Right(model[c], t, None) PROVE IInv'
  <2>1. /\ call' = call
        /\ last' = [by |-> c, text |-> t, with |-> None, count |-> n, fault |-> None, calls |-> 0, retries |-> 0]
    BY <1>3 DEF Answer, End
  <2>2. last' \in Ends
    BY <2>1 DEF Ends, Count
  <2>3. Typed'
    BY <1>1, <2>1, <2>2 DEF Typed, caches, settings
  <2>4. LastRight'
    BY <1>1, <1>3, <2>1 DEF LastRight, AttemptsAccounted, Right, Faults, settings
  <2>5. \A d \in Counter : Same(d)
    BY <1>1, <2>1 DEF Same, caches, settings
  <2> QED BY <1>1, <1>2, <2>3, <2>4, <2>5, Assemble, OthersKeep
<1>4. CASE t = Empty /\ Answer(c, t, None, 0)
  BY <1>3, <1>4 DEF Right
<1>5. CASE t # Empty /\ texts[c][t] # None /\ Answer(c, t, None, texts[c][t])
  <2>1. texts[c][t] \in Nat /\ texts[c][t] = Right(model[c], t, None)
    BY <1>1, <1>5 DEF Typed, CachesRight, Right, Count
  <2> QED BY <1>3, <1>5, <2>1
<1>6. CASE t # Empty /\ Begin(c, t, "text", None, "read")
  <2> DEFINE k == [text |-> t, entry |-> "text", with |-> None, step |-> "read",
                   count |-> None, calls |-> 0, retries |-> 0]
  <2>1. k \in Calls /\ k.step # "write"
    BY DEF Calls, Count
  <2>2. call' = [call EXCEPT ![c] = k] /\ last' = None
    BY <1>6 DEF Begin, Silent
  <2>3. CallRight(c)'
    BY <1>1, <1>6, <2>2 DEF CallRight, Typed
  <2>4. /\ call' \in [Counter -> Calls \cup {None}] /\ last' = None
        /\ Local(c)' /\ LastRight' /\ \A d \in Counter \ {c} : Same(d)
    <3> HIDE DEF k
    <3> QED BY <1>1, <2>1, <2>2, <2>3, GoOnKeeps DEF Typed
  <2>5. Typed'
    BY <1>1, <2>4 DEF Typed, caches, settings
  <2> QED BY <1>2, <2>4, <2>5, Assemble
<1> QED BY <1>4, <1>5, <1>6 DEF CountText

LEMMA CountRequestKeeps ==
  ASSUME IInv, NEW c \in Counter, NEW t \in Text, CountRequest(c, t) PROVE IInv'
<1>1. /\ Typed /\ Local(c) /\ CachesRight(c) /\ CallRight(c) /\ call[c] = None
      /\ UNCHANGED <<rows, texts, settings, fetched>>
  BY DEF IInv, Local, CountRequest
<1>2. RowsRight'
  BY <1>1 DEF IInv, RowsRight
<1>3. ASSUME NEW n \in Nat, NEW k \in Config \cup {None}, Answer(c, t, k, n), n = Right(model[c], t, k)
      PROVE  call' = call /\ last' \in Ends /\ LastRight'
  <2>1. /\ call' = call
        /\ last' = [by |-> c, text |-> t, with |-> k, count |-> n, fault |-> None, calls |-> 0, retries |-> 0]
    BY <1>3 DEF Answer, End
  <2>2. last' \in Ends
    BY <2>1 DEF Ends, Count
  <2>3. LastRight'
    BY <1>1, <1>3, <2>1 DEF LastRight, AttemptsAccounted, Right, Faults, settings
  <2> QED BY <2>1, <2>2, <2>3
<1>4. CASE requests[c][t] # None /\ Answer(c, t, config[c], requests[c][t]) /\ UNCHANGED requests
  <2>1. /\ requests[c][t] \in Nat /\ requests[c][t] = Right(model[c], t, config[c])
        /\ config[c] \in Config \cup {None}
    BY <1>1, <1>4 DEF Typed, CachesRight, Count
  <2>2. call' = call /\ last' \in Ends /\ LastRight'
    BY <1>3, <1>4, <2>1
  <2>3. Typed'
    BY <1>1, <1>4, <2>2 DEF Typed, settings
  <2>4. \A d \in Counter : Same(d)
    BY <1>1, <1>4, <2>2 DEF Same, settings
  <2> QED BY <1>1, <1>2, <2>2, <2>3, <2>4, Assemble, OthersKeep
<1>5. ASSUME config[c] = None, t = Empty \/ texts[c][t] # None,
             NEW n, n = IF t = Empty THEN 0 ELSE texts[c][t],
             Answer(c, t, None, n), Remember(requests, c, t, n)
      PROVE  IInv'
  <2>1. n \in Nat /\ n = Right(model[c], t, None)
    BY <1>1, <1>5 DEF Typed, CachesRight, Right, Count
  <2>2. call' = call /\ last' \in Ends /\ LastRight'
    BY <1>3, <1>5, <2>1
  <2>3. PICK stored \in Stored(requests[c], t, n) : requests' = [requests EXCEPT ![c] = stored]
    BY <1>5 DEF Remember
  <2>4. /\ requests' \in [Counter -> [Text -> Count]]
        /\ Refill(requests'[c], requests[c], t, n)
        /\ \A d \in Counter \ {c} : requests'[d] = requests[d]
    <3>1. Bounded(requests[c]) /\ requests \in [Counter -> [Text -> Count]]
      BY <1>1 DEF CachesRight, Typed
    <3>2. n \in Nat
      BY <2>1
    <3> QED BY <2>3, <3>1, <3>2, RememberRefills
  <2>5. Typed'
    BY <1>1, <2>2, <2>4 DEF Typed, settings
  <2>6. CachesRight(c)'
    <3>1. \A s \in Text : requests'[c][s] \in {None, Right(model[c], s, config[c])}
      BY <1>1, <1>5, <2>1, <2>4 DEF Refill, CachesRight
    <3> QED BY <1>1, <2>4, <3>1 DEF CachesRight, Refill, Bounded, Held, settings, Right
  <2>7. Sealed(c)'
    <3>1. Held(requests'[c]) \subseteq Held(requests[c]) \cup {t}
      BY <2>4 DEF Refill, Held
    <3>2. t \in Held(texts[c]) \cup {Empty}
      BY <1>5 DEF Held
    <3> QED BY <1>1, <2>2, <3>1, <3>2 DEF Sealed, Local, Isolated, Held, settings
  <2>8. CallRight(c)'
    BY <1>1, <2>2 DEF CallRight
  <2>9. \A d \in Counter \ {c} : Same(d)
    BY <1>1, <2>2, <2>4 DEF Same, settings
  <2> QED BY <1>2, <2>2, <2>5, <2>6, <2>7, <2>8, <2>9, Assemble DEF Local
<1>6. ASSUME NEW with, NEW step, Begin(c, t, "request", with, step), with = config[c], UNCHANGED requests,
             \/ with = None /\ step = "read" /\ t # Empty
             \/ with # None /\ step = "ask"
      PROVE  IInv'
  <2> DEFINE k == [text |-> t, entry |-> "request", with |-> with, step |-> step,
                   count |-> None, calls |-> 0, retries |-> 0]
  <2>1. k \in Calls /\ k.step # "write"
    BY <1>1, <1>6 DEF Calls, Count, Typed
  <2>2. call' = [call EXCEPT ![c] = k] /\ last' = None
    BY <1>6 DEF Begin, Silent
  <2>3. CallRight(c)'
    BY <1>1, <1>6, <2>2 DEF CallRight, Typed, settings
  <2>4. /\ call' \in [Counter -> Calls \cup {None}] /\ last' = None
        /\ Local(c)' /\ LastRight' /\ \A d \in Counter \ {c} : Same(d)
    <3> HIDE DEF k
    <3> QED BY <1>1, <1>6, <2>1, <2>2, <2>3, GoOnKeeps DEF Typed, caches
  <2>5. Typed'
    BY <1>1, <1>6, <2>4 DEF Typed, settings
  <2> QED BY <1>2, <2>4, <2>5, Assemble
<1>7. CASE /\ config[c] = None
           /\ t = Empty \/ texts[c][t] # None
           /\ LET n == IF t = Empty THEN 0 ELSE texts[c][t]
              IN  Answer(c, t, None, n) /\ Remember(requests, c, t, n)
  BY <1>5, <1>7
<1>8. CASE config[c] = None /\ t # Empty /\ Begin(c, t, "request", None, "read") /\ UNCHANGED requests
  BY <1>6, <1>8
<1>9. CASE config[c] # None /\ Begin(c, t, "request", config[c], "ask") /\ UNCHANGED requests
  BY <1>6, <1>9
<1> QED BY <1>4, <1>7, <1>8, <1>9 DEF CountRequest

LEMMA ReadFileKeeps == ASSUME IInv, NEW c \in Counter, ReadFile(c) PROVE IInv'
<1>1. /\ Typed /\ Local(c) /\ CallRight(c) /\ call[c] # None /\ call[c].step = "read"
      /\ UNCHANGED <<rows, settings, fetched>>
  BY DEF IInv, Local, ReadFile, At
<1>2. RowsRight'
  BY <1>1 DEF IInv, RowsRight
<1>3. call[c] \in Calls /\ call[c].with = None /\ call[c].text \in Text /\ model[c] \in Model
  BY <1>1 DEF Typed, Calls, CallRight
<1>4. CASE file[c] /\ Row(c) # None /\ Return(c, Row(c), 0)
  <2>1. Row(c) \in Nat /\ Row(c) = Size(model[c], call[c].text, call[c].with)
    BY <1>1, <1>3, <1>4 DEF Row, IInv, RowsRight, Typed, Count
  <2>2. ~Isolated(c)
    BY <1>1, <1>4 DEF Local, Sealed
  <2>3. /\ texts' \in [Counter -> [Text -> Count]] /\ requests' \in [Counter -> [Text -> Count]]
        /\ call' \in [Counter -> Calls \cup {None}] /\ last' \in Ends
        /\ Local(c)' /\ LastRight' /\ \A d \in Counter \ {c} : Same(d)
    BY <1>1, <1>4, <2>1, <2>2, ReturnKeeps DEF Typed
  <2>4. Typed'
    BY <1>1, <2>3 DEF Typed, settings
  <2> QED BY <1>2, <2>3, <2>4, Assemble
<1>5. CASE GoOn(c, [call[c] EXCEPT !.step = "ask"])
  <2> DEFINE k == [call[c] EXCEPT !.step = "ask"]
  <2>1. k \in Calls /\ k.step = "ask"
    BY <1>3 DEF Calls
  <2>2. call' = [call EXCEPT ![c] = k] /\ last' = None /\ UNCHANGED caches
    BY <1>5 DEF GoOn, Silent
  <2>3. CallRight(c)'
    BY <1>1, <1>3, <2>2 DEF CallRight, Typed, settings, Calls
  <2>4. /\ call' \in [Counter -> Calls \cup {None}] /\ last' = None
        /\ Local(c)' /\ LastRight' /\ \A d \in Counter \ {c} : Same(d)
    <3> HIDE DEF k
    <3> QED BY <1>1, <2>1, <2>2, <2>3, GoOnKeeps DEF Typed
  <2>5. Typed'
    BY <1>1, <2>2, <2>4 DEF Typed, caches, settings
  <2> QED BY <1>2, <2>4, <2>5, Assemble
<1> QED BY <1>4, <1>5 DEF ReadFile

LEMMA FileFailsKeeps == ASSUME IInv, NEW c \in Counter, FileFails(c) PROVE IInv'
<1>1. /\ Typed /\ Local(c) /\ CallRight(c) /\ call[c] # None /\ call[c] \in Calls
      /\ call[c].step \in {"read", "write"}
      /\ Raise(c, "fatal", call[c].calls)
      /\ UNCHANGED <<rows, settings, fetched>>
  BY DEF IInv, Local, FileFails, At, Typed
<1>2. RowsRight'
  BY <1>1 DEF IInv, RowsRight
<1>3. /\ call[c].calls \in Nat /\ call[c].calls <= MaxRetries + 1
      /\ call[c].calls > 0 => call[c].retries = call[c].calls - 1
  BY <1>1 DEF CallRight, Calls
<1>4. "fatal" \in Faults
  BY DEF Faults
<1>5. /\ call' \in [Counter -> Calls \cup {None}] /\ last' \in Ends
      /\ Local(c)' /\ LastRight' /\ \A d \in Counter \ {c} : Same(d)
  BY <1>1, <1>3, <1>4, RaiseKeeps
<1>6. Typed'
  BY <1>1, <1>5 DEF Typed, settings, Raise, caches
<1> QED BY <1>2, <1>5, <1>6, Assemble

LEMMA ServiceCountsKeeps == ASSUME IInv, NEW c \in Counter, ServiceCounts(c) PROVE IInv'
<1> DEFINE n == Size(model[c], call[c].text, call[c].with)
<1>1. /\ Typed /\ Local(c) /\ CallRight(c) /\ call[c] # None /\ call[c] \in Calls
      /\ call[c].step = "ask"
      /\ UNCHANGED <<rows, settings>>
  BY DEF IInv, Local, ServiceCounts, At, Typed
<1>2. RowsRight'
  BY <1>1 DEF IInv, RowsRight
<1>3. /\ call[c].text \in Text /\ call[c].with \in Config \cup {None} /\ model[c] \in Model
      /\ n \in Nat
      /\ call[c].calls \in Nat /\ call[c].calls <= MaxRetries /\ call[c].retries = call[c].calls
  BY <1>1 DEF Typed, Calls, CallRight
<1>4. /\ fetched' \in [Counter -> SUBSET Text] /\ \A d \in Counter \ {c} : fetched'[d] = fetched[d]
      /\ fetched[c] \subseteq fetched'[c]
      /\ Isolated(c) => call[c].text \in fetched'[c]
  <2>1. fetched' = [fetched EXCEPT ![c] = IF Isolated(c) THEN fetched[c] \cup {call[c].text} ELSE fetched[c]]
    BY DEF ServiceCounts
  <2> QED BY <1>1, <1>3, <2>1 DEF Typed
<1>5. CASE call[c].with = None
           /\ GoOn(c, [call[c] EXCEPT !.step = "write", !.count = n, !.calls = Attempts(c)])
  <2> DEFINE k == [call[c] EXCEPT !.step = "write", !.count = n, !.calls = Attempts(c)]
  <2>1. /\ k \in Calls /\ k.step = "write" /\ k.count = n /\ k.calls = call[c].calls + 1
        /\ k.text = call[c].text /\ k.with = call[c].with /\ k.entry = call[c].entry
        /\ k.retries = call[c].retries
    <3>1. Attempts(c) = call[c].calls + 1 /\ Attempts(c) \in Nat /\ n \in Count
      BY <1>3 DEF Attempts, Count
    <3> HIDE DEF n
    <3> QED BY <1>1, <3>1 DEF Calls
  <2>2. call' = [call EXCEPT ![c] = k] /\ last' = None /\ UNCHANGED caches
    BY <1>5 DEF GoOn, Silent
  <2> HIDE DEF k
  <2>3. call'[c] = k /\ model'[c] = model[c] /\ config'[c] = config[c]
    BY <1>1, <2>2 DEF Typed, settings
  <2>4. CallRight(c)'
    BY <1>1, <1>3, <1>5, <2>1, <2>3 DEF CallRight
  <2>5. /\ call' \in [Counter -> Calls \cup {None}] /\ last' = None
        /\ Local(c)' /\ LastRight' /\ \A d \in Counter \ {c} : Same(d)
    <3>1. Isolated(c) /\ k.step = "write" => k.text \in fetched'[c]
      BY <1>4, <2>1
    <3> QED BY <1>1, <1>4, <2>1, <2>2, <2>4, <3>1, GoOnKeeps
  <2>6. Typed'
    BY <1>1, <1>4, <2>2, <2>5 DEF Typed, caches, settings
  <2> QED BY <1>2, <2>5, <2>6, Assemble
<1>6. CASE Return(c, n, Attempts(c))
  <2>1. /\ texts' \in [Counter -> [Text -> Count]] /\ requests' \in [Counter -> [Text -> Count]]
        /\ call' \in [Counter -> Calls \cup {None}] /\ last' \in Ends
        /\ Local(c)' /\ LastRight' /\ \A d \in Counter \ {c} : Same(d)
    <3>1. Attempts(c) \in Nat /\ Attempts(c) <= MaxRetries + 1 /\ call[c].retries = Attempts(c) - 1
      BY <1>3 DEF Attempts
    <3>2. n = Size(model[c], call[c].text, call[c].with) /\ n \in Nat
      BY <1>3
    <3> HIDE DEF n
    <3> QED BY <1>1, <1>4, <1>6, <3>1, <3>2, ReturnKeeps
  <2>2. Typed'
    BY <1>1, <1>4, <2>1 DEF Typed, settings
  <2> QED BY <1>2, <2>1, <2>2, Assemble
<1> QED BY <1>5, <1>6 DEF ServiceCounts

LEMMA ServiceFailsKeeps ==
  ASSUME IInv, NEW c \in Counter, NEW fault \in {"transient", "fatal"}, ServiceFails(c, fault)
  PROVE  IInv'
<1>1. /\ Typed /\ Local(c) /\ CallRight(c) /\ call[c] # None /\ call[c] \in Calls
      /\ call[c].step = "ask"
      /\ UNCHANGED <<rows, settings, fetched>>
  BY DEF IInv, Local, ServiceFails, At, Typed
<1>2. RowsRight'
  BY <1>1 DEF IInv, RowsRight
<1>3. call[c].calls \in Nat /\ call[c].calls <= MaxRetries /\ call[c].retries = call[c].calls
  BY <1>1 DEF Calls, CallRight
<1>4. CASE ~LastAttempt(c) /\ GoOn(c, [call[c] EXCEPT !.calls = Attempts(c), !.retries = @ + 1])
  <2> DEFINE k == [call[c] EXCEPT !.calls = Attempts(c), !.retries = @ + 1]
  <2>1. /\ k \in Calls /\ k.step = "ask" /\ k.calls = call[c].calls + 1
        /\ k.text = call[c].text /\ k.with = call[c].with /\ k.entry = call[c].entry
        /\ k.retries = call[c].retries + 1
    <3>1. Attempts(c) = call[c].calls + 1 /\ Attempts(c) \in Nat /\ call[c].retries + 1 \in Nat
      BY <1>3 DEF Attempts
    <3> QED BY <1>1, <3>1 DEF Calls
  <2>2. call' = [call EXCEPT ![c] = k] /\ last' = None /\ UNCHANGED caches
    BY <1>4 DEF GoOn, Silent
  <2>3. k.calls <= MaxRetries
    BY <1>3, <1>4, <2>1 DEF LastAttempt, Attempts
  <2> HIDE DEF k
  <2>4. call'[c] = k /\ model'[c] = model[c] /\ config'[c] = config[c]
    BY <1>1, <2>2 DEF Typed, settings
  <2>5. CallRight(c)'
    BY <1>1, <1>3, <2>1, <2>3, <2>4 DEF CallRight
  <2>6. /\ call' \in [Counter -> Calls \cup {None}] /\ last' = None
        /\ Local(c)' /\ LastRight' /\ \A d \in Counter \ {c} : Same(d)
    BY <1>1, <2>1, <2>2, <2>5, GoOnKeeps DEF Typed
  <2>7. Typed'
    BY <1>1, <2>2, <2>6 DEF Typed, caches, settings
  <2> QED BY <1>2, <2>6, <2>7, Assemble
<1>5. CASE (fault = "fatal" \/ LastAttempt(c)) /\ Raise(c, fault, Attempts(c))
  <2>1. /\ Attempts(c) \in Nat /\ Attempts(c) <= MaxRetries + 1 /\ call[c].retries = Attempts(c) - 1
        /\ fault = "transient" => Attempts(c) = MaxRetries + 1
    BY <1>3, <1>5 DEF Attempts, LastAttempt
  <2>2. fault \in Faults
    BY DEF Faults
  <2>3. /\ call' \in [Counter -> Calls \cup {None}] /\ last' \in Ends
        /\ Local(c)' /\ LastRight' /\ \A d \in Counter \ {c} : Same(d)
    BY <1>1, <1>5, <2>1, <2>2, RaiseKeeps
  <2>4. Typed'
    BY <1>1, <1>5, <2>3 DEF Typed, settings, Raise, caches
  <2> QED BY <1>2, <2>3, <2>4, Assemble
<1> QED BY <1>4, <1>5 DEF ServiceFails

\* The row that a write commits is right.
LEMMA CommittedIsRight ==
  ASSUME IInv, NEW c \in Counter, At(c, "write")
  PROVE  /\ Committed(c) \in [Model -> [Text -> Count]]
         /\ \A m \in Model, t \in Text : Committed(c)[m][t] \in {None, Size(m, t, None)}
<1>1. /\ Typed /\ CallRight(c) /\ call[c] # None /\ call[c] \in Calls /\ call[c].step = "write"
  BY DEF IInv, Local, At, Typed
<1>2. /\ call[c].text \in Text /\ model[c] \in Model
      /\ call[c].count \in Nat /\ call[c].count = Size(model[c], call[c].text, None)
  <2>1. call[c].text \in Text /\ model[c] \in Model
    BY <1>1 DEF Typed, Calls
  <2>2. call[c].with = None /\ call[c].count = Size(model[c], call[c].text, None)
    BY <1>1 DEF CallRight
  <2>3. call[c].count \in Nat
    BY <2>1, <2>2, CounterAssumption
  <2> QED BY <2>1, <2>2, <2>3
<1> QED BY <1>1, <1>2 DEF Committed, Typed, IInv, RowsRight, Count

LEMMA WriteFileKeeps == ASSUME IInv, NEW c \in Counter, WriteFile(c) PROVE IInv'
<1>1. /\ Typed /\ Local(c) /\ CallRight(c) /\ Sealed(c) /\ call[c] # None /\ call[c] \in Calls
      /\ call[c].step = "write"
      /\ Return(c, call[c].count, call[c].calls)
      /\ UNCHANGED <<settings, fetched>>
  BY DEF IInv, Local, WriteFile, At, Typed
<1>2. /\ call[c].with = None /\ call[c].text \in Text /\ model[c] \in Model
      /\ call[c].count \in Nat /\ call[c].count = Size(model[c], call[c].text, None)
      /\ call[c].calls \in Nat /\ call[c].calls <= MaxRetries + 1
      /\ call[c].retries = call[c].calls - 1
  <2>1. call[c].text \in Text /\ model[c] \in Model /\ call[c].calls \in Nat /\ call[c].retries \in Nat
    BY <1>1 DEF Typed, Calls
  <2>2. call[c].with = None /\ call[c].count = Size(model[c], call[c].text, None)
    BY <1>1 DEF CallRight
  <2>3. call[c].calls = call[c].retries + 1 /\ call[c].calls <= MaxRetries + 1
    BY <1>1 DEF CallRight
  <2> QED BY <2>1, <2>2, <2>3
<1>3. rows' \in [Model -> [Text -> Count]] /\ RowsRight'
  <2>1. At(c, "write") /\ rows' = Committed(c)
    BY DEF WriteFile
  <2> QED BY <2>1, CommittedIsRight DEF RowsRight
<1>4. /\ texts' \in [Counter -> [Text -> Count]] /\ requests' \in [Counter -> [Text -> Count]]
      /\ call' \in [Counter -> Calls \cup {None}] /\ last' \in Ends
      /\ Local(c)' /\ LastRight' /\ \A d \in Counter \ {c} : Same(d)
  <2> DEFINE n == call[c].count
             k == call[c].calls
  <2>1. Isolated(c) => call[c].text \in fetched'[c]
    BY <1>1 DEF Sealed
  <2>2. /\ n \in Nat /\ n = Size(model[c], call[c].text, call[c].with)
        /\ k \in Nat /\ k <= MaxRetries + 1 /\ (k > 0 => call[c].retries = k - 1)
    BY <1>2
  <2>3. /\ fetched' \in [Counter -> SUBSET Text] /\ fetched[c] \subseteq fetched'[c]
        /\ \A d \in Counter \ {c} : fetched'[d] = fetched[d]
    BY <1>1 DEF Typed
  <2>4. Typed /\ Local(c) /\ call[c] # None /\ Return(c, n, k) /\ UNCHANGED settings
    BY <1>1
  <2> HIDE DEF n, k
  <2> QED BY <2>1, <2>2, <2>3, <2>4, ReturnKeeps
<1>5. Typed'
  BY <1>1, <1>3, <1>4 DEF Typed, settings
<1> QED BY <1>3, <1>4, <1>5, Assemble

LEMMA InterruptKeeps == ASSUME IInv, NEW c \in Counter, Interrupt(c) PROVE IInv'
<1>1. /\ Typed /\ Local(c) /\ CallRight(c) /\ call[c] # None /\ call[c] \in Calls
      /\ Raise(c, "interrupted", call[c].calls)
      /\ UNCHANGED <<settings, fetched>>
  BY DEF IInv, Local, Interrupt, Typed
<1>2. rows' \in [Model -> [Text -> Count]] /\ RowsRight'
  <2>1. rows' = rows \/ (At(c, "write") /\ rows' = Committed(c))
    BY DEF Interrupt
  <2>2. CASE rows' = rows
    BY <1>1, <2>2 DEF Typed, IInv, RowsRight
  <2>3. CASE At(c, "write") /\ rows' = Committed(c)
    BY <2>3, CommittedIsRight DEF RowsRight
  <2> QED BY <2>1, <2>2, <2>3
<1>3. call[c].calls \in Nat /\ call[c].calls <= MaxRetries + 1
  BY <1>1 DEF CallRight, Calls
<1>4. "interrupted" \in Faults
  BY DEF Faults
<1>5. /\ call' \in [Counter -> Calls \cup {None}] /\ last' \in Ends
      /\ Local(c)' /\ LastRight' /\ \A d \in Counter \ {c} : Same(d)
  BY <1>1, <1>3, <1>4, RaiseKeeps
<1>6. Typed'
  BY <1>1, <1>2, <1>5 DEF Typed, settings, Raise, caches
<1> QED BY <1>2, <1>5, <1>6, Assemble

-----------------------------------------------------------------------------
(* The settings *)

\* The empty cache is a cache.
LEMMA NoCountsBounded == /\ NoCounts \in [Text -> Count] /\ Held(NoCounts) = {} /\ Bounded(NoCounts)
<1>1. NoCounts \in [Text -> Count] /\ Held(NoCounts) = {}
  BY DEF NoCounts, Held, Count
<1> QED BY <1>1, FS_EmptySet DEF Bounded

LEMMA ConfigureRequestKeeps ==
  ASSUME IInv, NEW c \in Counter, NEW k \in Config \cup {None}, ConfigureRequest(c, k) PROVE IInv'
<1>1. /\ Typed /\ Local(c) /\ CachesRight(c) /\ Sealed(c) /\ call[c] = None
      /\ config' = [config EXCEPT ![c] = k] /\ requests' = [requests EXCEPT ![c] = NoCounts]
      /\ last' = None
      /\ UNCHANGED <<rows, texts, model, file, original, call, fetched>>
  BY DEF IInv, Local, ConfigureRequest, Silent
<1>2. Typed'
  BY <1>1, NoCountsBounded DEF Typed
<1>3. RowsRight' /\ LastRight'
  BY <1>1 DEF IInv, RowsRight, LastRight, AttemptsAccounted
<1>4. requests'[c] = NoCounts
  BY <1>1 DEF Typed
<1>5. CachesRight(c)'
  <2>1. \A t \in Text : requests'[c][t] = None
    BY <1>4 DEF NoCounts
  <2>2. Bounded(requests'[c])
    BY <1>4, NoCountsBounded
  <2> QED BY <1>1, <2>1, <2>2 DEF CachesRight, Bounded, Held
<1>6. Sealed(c)'
  BY <1>1, <1>4, NoCountsBounded DEF Sealed, Isolated, Held
<1>7. CallRight(c)' /\ \A d \in Counter \ {c} : Same(d)
  BY <1>1 DEF CallRight, Same, Typed
<1> QED BY <1>2, <1>3, <1>5, <1>6, <1>7, Assemble DEF Local

\* Whoever empties the caches has nothing left in them that could be wrong.
LEMMA EmptyCachesKeeps ==
  ASSUME Typed, NEW c \in Counter, EmptyCaches(c)
  PROVE  /\ texts' \in [Counter -> [Text -> Count]] /\ requests' \in [Counter -> [Text -> Count]]
         /\ Held(texts'[c]) = {} /\ Held(requests'[c]) = {} /\ CachesRight(c)'
         /\ \A d \in Counter \ {c} : texts'[d] = texts[d] /\ requests'[d] = requests[d]
<1>1. texts'[c] = NoCounts /\ requests'[c] = NoCounts
  BY DEF EmptyCaches, Typed
<1>2. Held(texts'[c]) = {} /\ Held(requests'[c]) = {} /\ Bounded(texts'[c]) /\ Bounded(requests'[c])
  BY <1>1, NoCountsBounded
<1>3. \A t \in Text : texts'[c][t] = None /\ requests'[c][t] = None
  BY <1>1 DEF NoCounts
<1>4. CachesRight(c)'
  BY <1>2, <1>3 DEF CachesRight, Bounded, Held
<1> QED BY <1>2, <1>4, NoCountsBounded DEF EmptyCaches, Typed

LEMMA ClearCacheKeeps == ASSUME IInv, NEW c \in Counter, ClearCache(c) PROVE IInv'
<1>1. /\ Typed /\ Local(c) /\ Sealed(c) /\ call[c] = None /\ EmptyCaches(c) /\ last' = None
      /\ UNCHANGED <<rows, settings, call, fetched>>
  BY DEF IInv, Local, ClearCache, Silent
<1>2. /\ texts' \in [Counter -> [Text -> Count]] /\ requests' \in [Counter -> [Text -> Count]]
      /\ Held(texts'[c]) = {} /\ Held(requests'[c]) = {} /\ CachesRight(c)'
      /\ \A d \in Counter \ {c} : texts'[d] = texts[d] /\ requests'[d] = requests[d]
  BY <1>1, EmptyCachesKeeps
<1>3. Typed'
  BY <1>1, <1>2 DEF Typed, settings
<1>4. RowsRight' /\ LastRight'
  BY <1>1 DEF IInv, RowsRight, LastRight, AttemptsAccounted
<1>5. Sealed(c)' /\ CallRight(c)'
  BY <1>1, <1>2 DEF Sealed, CallRight, Isolated, Held, settings
<1>6. \A d \in Counter \ {c} : Same(d)
  BY <1>1, <1>2 DEF Same, settings
<1> QED BY <1>2, <1>3, <1>4, <1>5, <1>6, Assemble DEF Local

LEMMA ClearPersistentCacheKeeps ==
  ASSUME IInv, NEW c \in Counter, ClearPersistentCache(c) PROVE IInv'
<1>1. /\ Typed /\ Local(c) /\ rows' = [rows EXCEPT ![model[c]] = NoCounts] /\ last' = None
      /\ UNCHANGED <<caches, settings, call, fetched>>
  BY DEF IInv, Local, ClearPersistentCache, Silent
<1>2. Typed'
  BY <1>1, NoCountsBounded DEF Typed, caches, settings
<1>3. RowsRight'
  BY <1>1 DEF IInv, RowsRight, Typed, NoCounts
<1>4. LastRight'
  BY <1>1 DEF LastRight, AttemptsAccounted
<1>5. \A d \in Counter : Same(d)
  BY <1>1 DEF Same, caches, settings
<1> QED BY <1>1, <1>2, <1>3, <1>4, <1>5, Assemble, OthersKeep

LEMMA EnterIsolationKeeps == ASSUME IInv, NEW c \in Counter, EnterIsolation(c) PROVE IInv'
<1>1. /\ Typed /\ Local(c) /\ Sealed(c) /\ call[c] = None /\ EmptyCaches(c) /\ last' = None /\ ~Isolated(c)
      /\ original' = [original EXCEPT ![c] = file[c]] /\ file' = [file EXCEPT ![c] = FALSE]
      /\ fetched' = [fetched EXCEPT ![c] = {}]
      /\ UNCHANGED <<rows, model, config, call>>
  BY DEF IInv, Local, EnterIsolation, Silent
<1>2. /\ texts' \in [Counter -> [Text -> Count]] /\ requests' \in [Counter -> [Text -> Count]]
      /\ Held(texts'[c]) = {} /\ Held(requests'[c]) = {} /\ CachesRight(c)'
      /\ \A d \in Counter \ {c} : texts'[d] = texts[d] /\ requests'[d] = requests[d]
  BY <1>1, EmptyCachesKeeps
<1>3. Typed'
  BY <1>1, <1>2 DEF Typed
<1>4. RowsRight' /\ LastRight'
  BY <1>1 DEF IInv, RowsRight, LastRight, AttemptsAccounted
<1>5. Sealed(c)'
  <2>1. /\ file'[c] = FALSE /\ original'[c] = (c \in Persistent) /\ call'[c] = None
        /\ original'[c] # None
    BY <1>1 DEF Sealed, Typed
  <2> QED BY <1>2, <2>1 DEF Sealed, Isolated, Held
<1>6. CallRight(c)' /\ \A d \in Counter \ {c} : Same(d)
  BY <1>1, <1>2 DEF CallRight, Same, Typed
<1> QED BY <1>2, <1>3, <1>4, <1>5, <1>6, Assemble DEF Local

LEMMA LeaveIsolationKeeps == ASSUME IInv, NEW c \in Counter, LeaveIsolation(c) PROVE IInv'
<1>1. /\ Typed /\ Local(c) /\ Sealed(c) /\ call[c] = None /\ EmptyCaches(c) /\ last' = None /\ Isolated(c)
      /\ file' = [file EXCEPT ![c] = original[c]] /\ original' = [original EXCEPT ![c] = None]
      /\ fetched' = [fetched EXCEPT ![c] = {}]
      /\ UNCHANGED <<rows, model, config, call>>
  BY DEF IInv, Local, LeaveIsolation, Silent
<1>2. /\ texts' \in [Counter -> [Text -> Count]] /\ requests' \in [Counter -> [Text -> Count]]
      /\ Held(texts'[c]) = {} /\ Held(requests'[c]) = {} /\ CachesRight(c)'
      /\ \A d \in Counter \ {c} : texts'[d] = texts[d] /\ requests'[d] = requests[d]
  BY <1>1, EmptyCachesKeeps
<1>3. Typed'
  <2>1. original[c] \in BOOLEAN
    BY <1>1 DEF Isolated, Typed
  <2> QED BY <1>1, <1>2, <2>1 DEF Typed
<1>4. RowsRight' /\ LastRight'
  BY <1>1 DEF IInv, RowsRight, LastRight, AttemptsAccounted
<1>5. Sealed(c)'
  <2>1. file'[c] = (c \in Persistent) /\ original'[c] = None
    BY <1>1 DEF Sealed, Typed
  <2> QED BY <2>1 DEF Sealed, Isolated
<1>6. CallRight(c)' /\ \A d \in Counter \ {c} : Same(d)
  BY <1>1, <1>2 DEF CallRight, Same, Typed
<1> QED BY <1>2, <1>3, <1>4, <1>5, <1>6, Assemble DEF Local

LEMMA RestartKeeps == ASSUME IInv, NEW c \in Counter, NEW m \in Model, Restart(c, m) PROVE IInv'
<1>1. /\ Typed /\ EmptyCaches(c) /\ last' = None
      /\ model' = [model EXCEPT ![c] = m] /\ config' = [config EXCEPT ![c] = None]
      /\ file' = [file EXCEPT ![c] = c \in Persistent] /\ original' = [original EXCEPT ![c] = None]
      /\ call' = [call EXCEPT ![c] = None] /\ fetched' = [fetched EXCEPT ![c] = {}]
      /\ rows' = rows
  BY DEF IInv, Restart, Silent
<1>2. /\ texts' \in [Counter -> [Text -> Count]] /\ requests' \in [Counter -> [Text -> Count]]
      /\ Held(texts'[c]) = {} /\ Held(requests'[c]) = {} /\ CachesRight(c)'
      /\ \A d \in Counter \ {c} : texts'[d] = texts[d] /\ requests'[d] = requests[d]
  BY <1>1, EmptyCachesKeeps
<1>3. Typed'
  <2>1. (c \in Persistent) \in BOOLEAN
    OBVIOUS
  <2>2. file' \in [Counter -> BOOLEAN]
    BY <1>1, <2>1 DEF Typed
  <2>3. /\ model' \in [Counter -> Model] /\ config' \in [Counter -> Config \cup {None}]
        /\ original' \in [Counter -> BOOLEAN \cup {None}] /\ call' \in [Counter -> Calls \cup {None}]
        /\ fetched' \in [Counter -> SUBSET Text] /\ last' \in Ends \cup {None}
        /\ rows' \in [Model -> [Text -> Count]]
    BY <1>1 DEF Typed
  <2> QED BY <1>2, <2>2, <2>3 DEF Typed
<1>4. RowsRight' /\ LastRight'
  BY <1>1 DEF IInv, RowsRight, LastRight, AttemptsAccounted
<1>5. Sealed(c)'
  <2>1. file'[c] = (c \in Persistent) /\ original'[c] = None
    BY <1>1 DEF Typed
  <2> QED BY <2>1 DEF Sealed, Isolated
<1>6. CallRight(c)' /\ \A d \in Counter \ {c} : Same(d)
  BY <1>1, <1>2 DEF CallRight, Same, Typed
<1> QED BY <1>2, <1>3, <1>4, <1>5, <1>6, Assemble DEF Local

-----------------------------------------------------------------------------
(* The theorems *)

LEMMA StepIInv == IInv /\ [Next]_vars => IInv'
<1> SUFFICES ASSUME IInv, [Next]_vars PROVE IInv'
  OBVIOUS
<1>1. CASE UNCHANGED vars
  <2>1. Typed' /\ RowsRight' /\ LastRight'
    BY <1>1 DEF IInv, vars, caches, settings, Typed, RowsRight, LastRight, AttemptsAccounted
  <2>2. \A c \in Counter : Same(c)
    BY <1>1 DEF vars, caches, settings, Same
  <2>3. \A c \in Counter : Local(c)'
    BY <2>2, OthersKeep DEF IInv
  <2> QED BY <2>1, <2>3 DEF IInv
<1>2. ASSUME NEW c \in Counter, Work(c) PROVE IInv'
  BY <1>2, CountTextKeeps, CountRequestKeeps, ReadFileKeeps, FileFailsKeeps, WriteFileKeeps,
     InterruptKeeps, ServiceCountsKeeps, ServiceFailsKeeps DEF Work
<1>3. ASSUME NEW c \in Counter, Manage(c) PROVE IInv'
  BY <1>3, ClearCacheKeeps, ClearPersistentCacheKeeps, RestartKeeps DEF Manage
<1>4. ASSUME NEW c \in Runner, Experiment(c) PROVE IInv'
  <2>1. c \in Counter
    OBVIOUS
  <2> QED BY <1>4, <2>1, ConfigureRequestKeeps, EnterIsolationKeeps, LeaveIsolationKeeps DEF Experiment
<1> QED BY <1>1, <1>2, <1>3, <1>4 DEF Next

LEMMA Invariance == Spec => []IInv
BY InitIInv, StepIInv, PTL DEF Spec

\* Every variable keeps its type, and neither cache of a process ever holds more
\* than cache_size entries, whatever _store evicted before.
THEOREM TypeCorrect == Spec => []TypeOK
<1>1. IInv => TypeOK
  BY DEF IInv, Typed, TypeOK, Local, CachesRight, Bounded
<1> QED BY <1>1, Invariance, PTL

\* A stale count never survives: whatever was configured, cleared, interrupted or
\* restarted, and whichever process wrote the row, the counter
\* answers what the service counts, from the caches, the file and the service alike.
THEOREM CountsStayRight == Spec => []CountsAreRight
<1>1. IInv => CountsAreRight
  BY DEF IInv, RowsRight, Local, CachesRight, LastRight, CountsAreRight
<1> QED BY <1>1, Invariance, PTL

\* The retry loop of _count_tokens_from_api makes at most max_retries + 1 attempts,
\* sleeps only between two of them, and raises a transient error only at the end.
THEOREM AttemptsAreAccounted == Spec => []AttemptsAccounted
<1>1. IInv => AttemptsAccounted
  BY DEF IInv, LastRight
<1> QED BY <1>1, Invariance, PTL

-----------------------------------------------------------------------------
(* Isolation *)

\* Only a process that uses the file writes to it, and to the rows of its model.
LEMMA RowsShape ==
  ASSUME IInv, [Next]_vars
  PROVE  \/ rows' = rows
         \/ \E c \in Counter : /\ ~Isolated(c)
                               /\ \A m \in Model \ {model[c]} : rows'[m] = rows[m]
<1>1. ASSUME NEW c \in Counter, file[c]
      PROVE  ~Isolated(c)
  BY <1>1 DEF IInv, Local, Sealed
<1>2. ASSUME NEW c \in Counter, WriteFile(c) \/ Interrupt(c)
      PROVE  rows' = rows \/ (~Isolated(c) /\ \A m \in Model \ {model[c]} : rows'[m] = rows[m])
  <2> SUFFICES ASSUME rows' = Committed(c)
               PROVE  rows' = rows \/ (~Isolated(c) /\ \A m \in Model \ {model[c]} : rows'[m] = rows[m])
    BY <1>2 DEF WriteFile, Interrupt
  <2>1. CASE ~file[c]
    BY <2>1 DEF Committed
  <2>2. CASE file[c]
    <3>1. rows' = [rows EXCEPT ![model[c]][call[c].text] = call[c].count]
      BY <2>2 DEF Committed
    <3>2. \A m \in Model \ {model[c]} : rows'[m] = rows[m]
      BY <3>1 DEF IInv, Typed
    <3> QED BY <1>1, <2>2, <3>2
  <2> QED BY <2>1, <2>2
<1>3. ASSUME NEW c \in Counter, ClearPersistentCache(c)
      PROVE  ~Isolated(c) /\ \A m \in Model \ {model[c]} : rows'[m] = rows[m]
  <2>1. file[c] /\ rows' = [rows EXCEPT ![model[c]] = NoCounts]
    BY <1>3 DEF ClearPersistentCache
  <2>2. \A m \in Model \ {model[c]} : rows'[m] = rows[m]
    BY <2>1 DEF IInv, Typed
  <2> QED BY <1>1, <2>1, <2>2
<1>4. CASE UNCHANGED vars
  BY <1>4 DEF vars
<1>5. ASSUME NEW c \in Counter, Work(c), ~WriteFile(c), ~Interrupt(c)
      PROVE  rows' = rows
  BY <1>5 DEF Work, CountText, CountRequest, ReadFile, FileFails, ServiceCounts, ServiceFails
<1>6. ASSUME NEW c \in Counter, Manage(c), ~ClearPersistentCache(c)
      PROVE  rows' = rows
  BY <1>6 DEF Manage, ClearCache, Restart
<1>7. ASSUME NEW c \in Runner, Experiment(c)
      PROVE  rows' = rows
  BY <1>7 DEF Experiment, ConfigureRequest, EnterIsolation, LeaveIsolation
<1> QED BY <1>2, <1>3, <1>4, <1>5, <1>6, <1>7 DEF Next

\* Isolation ends with empty caches, by its end or with the process.
LEMMA IsolationShape ==
  ASSUME IInv, [Next]_vars, NEW c \in Counter
  PROVE  original'[c] = original[c] \/ EmptyCaches(c)
<1>1. CASE UNCHANGED vars
  BY <1>1 DEF vars, settings
<1>2. ASSUME NEW d \in Counter, Work(d) PROVE original' = original
  BY <1>2 DEF Work, CountText, CountRequest, ReadFile, FileFails, WriteFile, Interrupt, ServiceCounts,
     ServiceFails, settings
<1>3. ASSUME NEW d \in Counter, Manage(d) PROVE original' = original \/ (EmptyCaches(d) /\ original' = [original EXCEPT ![d] = None])
  BY <1>3 DEF Manage, ClearCache, ClearPersistentCache, Restart, settings
<1>4. ASSUME NEW d \in Runner, Experiment(d)
      PROVE  original' = original \/ (EmptyCaches(d) /\ \E o : original' = [original EXCEPT ![d] = o])
  BY <1>4 DEF Experiment, ConfigureRequest, EnterIsolation, LeaveIsolation
<1>5. ASSUME NEW d \in Counter, NEW o, EmptyCaches(d), original' = [original EXCEPT ![d] = o]
      PROVE  original'[c] = original[c] \/ EmptyCaches(c)
  BY <1>5 DEF IInv, Typed
<1> QED BY <1>1, <1>2, <1>3, <1>4, <1>5 DEF Next

\* isolated_cache keeps its promises in both directions: no count from outside is
\* used inside, none from inside is left behind, and the file's rows of a model
\* change only if a process outside of isolation uses that model.
THEOREM IsolationIsSealed == Spec => IsolationSealed
<1> DEFINE SealedStep ==
      /\ \A m \in Model : (\A c \in Counter : model[c] = m => Isolated(c)) => rows'[m] = rows[m]
      /\ \A c \in Counter :
           /\ Isolated(c)' => Held(texts'[c]) \cup Held(requests'[c]) \subseteq fetched'[c] \cup {Empty}
           /\ Isolated(c) /\ ~Isolated(c)' =>
                /\ Held(texts'[c]) \cup Held(requests'[c]) = {}
                /\ file'[c] = (c \in Persistent)
<1>1. IInv /\ [Next]_vars => SealedStep
  <2> SUFFICES ASSUME IInv, [Next]_vars PROVE SealedStep
    OBVIOUS
  <2>1. ASSUME NEW m \in Model, \A c \in Counter : model[c] = m => Isolated(c)
        PROVE  rows'[m] = rows[m]
    BY <2>1, RowsShape
  <2>2. ASSUME NEW c \in Counter
        PROVE  /\ Isolated(c)' => Held(texts'[c]) \cup Held(requests'[c]) \subseteq fetched'[c] \cup {Empty}
               /\ Isolated(c) /\ ~Isolated(c)' =>
                    /\ Held(texts'[c]) \cup Held(requests'[c]) = {}
                    /\ file'[c] = (c \in Persistent)
    <3>1. Sealed(c)'
      BY StepIInv DEF IInv, Local
    <3>2. Isolated(c)' => Held(texts'[c]) \cup Held(requests'[c]) \subseteq fetched'[c] \cup {Empty}
      BY <3>1 DEF Sealed, Held, Isolated
    <3>3. ASSUME Isolated(c), ~Isolated(c)'
          PROVE  /\ Held(texts'[c]) \cup Held(requests'[c]) = {}
                 /\ file'[c] = (c \in Persistent)
      <4>1. EmptyCaches(c)
        BY <3>3, IsolationShape DEF Isolated
      <4>2. Held(texts'[c]) = {} /\ Held(requests'[c]) = {}
        BY <4>1, EmptyCachesKeeps DEF IInv
      <4> QED BY <3>1, <3>3, <4>2 DEF Sealed
    <3> QED BY <3>2, <3>3
  <2> QED BY <2>1, <2>2
<1> QED BY <1>1, Invariance, PTL DEF Spec, IsolationSealed
====
