------------------------------ MODULE RateCache ------------------------------
(***************************************************************************)
(* The exchange rates the palette keeps (ui/currency.rs): conversions run  *)
(* on background threads of one process, each looking at the file          *)
(* currency-rates.json, asking the provider where its rate is not fresh,   *)
(* and writing the file again with what it got.  The process ends with its *)
(* window, whatever its threads are doing.                                 *)
(***************************************************************************)
EXTENDS Naturals

CONSTANTS
    Pairs,          \* keys "from:to"
    Converters,     \* threads
    FreshFor,       \* FRESH_FOR_MS, in ticks
    MaxClock,       \* bound on the clock
    MaxConversions, \* bound on conversions
    NoRate

ASSUME RateAssumption ==
    /\ {FreshFor, MaxClock, MaxConversions} \subseteq Nat
    /\ NoRate \notin Converters /\ NoRate \notin Nat

VARIABLE
    exchange     \* rates: the file; temporary: its temporary file; lock: CACHE_WRITE;
                 \* threads; clock; spent

\* A rate counts by when it was asked for.
Observed == 0..MaxClock
NoRates == [k \in Pairs |-> NoRate]
IdleThread == [at |-> "idle"]

RateInit ==
    exchange = [rates |-> NoRates, temporary |-> NoRates, lock |-> NoRate,
                threads |-> [t \in Converters |-> IdleThread], clock |-> 0, spent |-> 0]

Step(t, thread) == [exchange EXCEPT !.threads[t] = thread]
Thread(t) == exchange.threads[t]

\* Time passes.
ClockTicks ==
    /\ exchange.clock < MaxClock
    /\ exchange' = [exchange EXCEPT !.clock = @ + 1]

\* convert: the file is read once, and a fresh rate is the answer.
BeginConversion(t, k) ==
    /\ Thread(t).at \in {"idle", "answered", "failed"} /\ exchange.spent < MaxConversions
    /\ LET kept == exchange.rates
           now == exchange.clock
           fresh == kept[k] # NoRate /\ now - kept[k] <= FreshFor
       IN  exchange' = [Step(t, [at |-> IF fresh THEN "answered" ELSE "asking",
                                 pair |-> k, kept |-> kept, now |-> now])
                        EXCEPT !.spent = @ + 1]

\* fetch_rate fails: no network, no answer in time, or none for this currency.
FetchFails(t) ==
    /\ Thread(t).at = "asking"
    /\ exchange' = Step(t, [Thread(t) EXCEPT
          !.at = IF Thread(t).kept[Thread(t).pair] = NoRate THEN "failed" ELSE "answered"])

\* apply_rate refuses a malformed rate before it is kept.
FetchSucceeds(t) ==
    /\ Thread(t).at = "asking"
    /\ \E next \in {"saving", "failed"} : exchange' = Step(t, [Thread(t) EXCEPT !.at = next])

\* Faulty: the file is read before the lock is taken.
WithoutLock(t) == TRUE
LockFree(t) == exchange.lock = NoRate

\* save_rate: under the lock the file is read again and gets this rate.
LockCache(t) ==
    /\ Thread(t).at = "saving" /\ LockFree(t)
    /\ exchange' = [Step(t, [Thread(t) EXCEPT !.at = "writing",
                                              !.kept = [exchange.rates EXCEPT
                                                           ![Thread(t).pair] = Thread(t).now]])
                    EXCEPT !.lock = t]

WriteRates(t) ==
    /\ Thread(t).at = "writing"
    /\ \E fails \in BOOLEAN :
          exchange' = IF fails   \* save_rate gives up, the conversion is answered
                      THEN [Step(t, [Thread(t) EXCEPT !.at = "answered"]) EXCEPT !.lock = NoRate]
                      ELSE [Step(t, [Thread(t) EXCEPT !.at = "renaming"])
                            EXCEPT !.temporary = Thread(t).kept]

RenameRates(t) ==
    /\ Thread(t).at = "renaming"
    /\ exchange' = [Step(t, [Thread(t) EXCEPT !.at = "answered"])
                    EXCEPT !.rates = exchange.temporary, !.lock = NoRate]

\* The window closes, and the next one is a new process.
PaletteEnds ==
    exchange' = [exchange EXCEPT !.threads = [t \in Converters |-> IdleThread], !.lock = NoRate]

RateNext ==
    \/ ClockTicks \/ PaletteEnds
    \/ \E t \in Converters :
          \/ \E k \in Pairs : BeginConversion(t, k)
          \/ FetchFails(t) \/ FetchSucceeds(t)
          \/ LockCache(t) \/ WriteRates(t) \/ RenameRates(t)

RateSpec == RateInit /\ [][RateNext]_exchange

(***************************************************************************)
(* Properties.                                                             *)
(***************************************************************************)
RateTable == [Pairs -> Observed \cup {NoRate}]
ThreadState ==
    [at : {"idle"}] \cup
    [at : {"asking", "saving", "writing", "renaming", "answered", "failed"},
     pair : Pairs, kept : RateTable, now : Observed]

RateTypeOK ==
    exchange \in [rates : RateTable, temporary : RateTable, lock : Converters \cup {NoRate},
                  threads : [Converters -> ThreadState], clock : Observed,
                  spent : 0..MaxConversions]

\* A rate once kept stays available offline: no conversion that ends at the same
\* time, and no closing of the window, takes another pair's rate out of the file
\* (save_rate reads and replaces it as one step, under CACHE_WRITE).
NoRateForgotten ==
    [][\A k \in Pairs : exchange.rates[k] # NoRate => exchange'.rates[k] # NoRate]_exchange
=============================================================================
