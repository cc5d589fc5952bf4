--------------------------- MODULE BalanceReserve ---------------------------
(***************************************************************************)
(* The lock-free balance reservation of BaseTradeExchangeConnector          *)
(* (fin/exchange.cpp): one entry of m_balances, the pair of atomics         *)
(* <<total, reserve>>, used by several threads at once.                     *)
(*                                                                         *)
(* A client is one reservation: a thread that calls reserveBalance, keeps   *)
(* what it was granted, and gives it back with one or more calls of         *)
(* unreserveBalance.  The network thread stores a new total whenever the    *)
(* exchange reports one.  Every load, store and compare-and-swap of a       *)
(* shared atomic is a step of its own; getBalance reads the two atomics in  *)
(* two steps whose order C++ leaves open.                                   *)
(***************************************************************************)
EXTENDS Integers, FiniteSets

CONSTANTS Clients,      \* the reservations competing for one symbol
          MaxAmount,    \* bound: quantities are 1..MaxAmount
          Totals        \* the balances the exchange may report

ASSUME ClientsAssumption == IsFiniteSet(Clients)
ASSUME AmountAssumption == MaxAmount \in Nat \ {0}
ASSUME TotalsAssumption == Totals \subseteq Nat

VARIABLES
  total,     \* m_balances[symbol].first
  reserve,   \* m_balances[symbol].second
  pc,        \* where each client is
  qty,       \* argument `quantity' of the client's current call
  cur,       \* local currentReserve
  loaded,    \* which of the two loads of getBalance have been done
  first,     \* value loaded from .first
  second,    \* value loaded from .second
  out,       \* history: how much of the client's quantity is inside `reserve'
  peak       \* history: the largest total stored so far

vars == <<total, reserve, pc, qty, cur, loaded, first, second, out, peak>>

Amounts == 1..MaxAmount

\* "get"      inside getBalance called by the application
\* "reserve"  in the compare-and-swap loop of reserveBalance
\* "recheck"  after the successful swap, inside the second getBalance
\* "rollback" in the loop of the unreserveBalance that reserveBalance calls
\* "held"     reserveBalance returned true, the client keeps its quantity
\* "release"  in the loop of an unreserveBalance called by the client
PCs == {"idle", "get", "reserve", "recheck", "rollback", "held", "release"}

Reading == {"get", "reserve", "recheck"}

\* The units of balance that the clients in S have inside `reserve'.
Units(S, f) == {u \in S \X Amounts : u[2] <= f[u[1]]}
Sum(S, f) == Cardinality(Units(S, f))

-----------------------------------------------------------------------------

\* The connector's constructor has called addSymbol: both atomics are 0.
Init ==
  /\ total = 0
  /\ reserve = 0
  /\ pc = [c \in Clients |-> "idle"]
  /\ qty = [c \in Clients |-> 0]
  /\ cur = [c \in Clients |-> 0]
  /\ loaded = [c \in Clients |-> {}]
  /\ first = [c \in Clients |-> 0]
  /\ second = [c \in Clients |-> 0]
  /\ out = [c \in Clients |-> 0]
  /\ peak = 0

\* updateBalance: the network thread stores what the exchange reported.
UpdateBalance(v) ==
  /\ total' = v
  /\ peak' = IF v > peak THEN v ELSE peak
  /\ UNCHANGED <<reserve, pc, qty, cur, loaded, first, second, out>>

\* The local variables of a call are dead once it returns, those of getBalance
\* once its result has been used; dead locals are 0.
Discard(c) ==
  /\ loaded' = [loaded EXCEPT ![c] = {}]
  /\ first' = [first EXCEPT ![c] = 0]
  /\ second' = [second EXCEPT ![c] = 0]

Return(c, where) ==
  /\ pc' = [pc EXCEPT ![c] = where]
  /\ qty' = [qty EXCEPT ![c] = 0]
  /\ cur' = [cur EXCEPT ![c] = 0]
  /\ Discard(c)

-----------------------------------------------------------------------------
\* getBalance(symbol): two loads, in either order, and a subtraction.

Loaded(c) == loaded[c] = {"total", "reserve"}

Available(c) == first[c] - second[c]

GetBalance(c) ==
  /\ pc[c] = "idle"
  /\ pc' = [pc EXCEPT ![c] = "get"]
  /\ UNCHANGED <<total, reserve, qty, cur, loaded, first, second, out, peak>>

LoadTotal(c) ==
  /\ pc[c] \in Reading
  /\ "total" \notin loaded[c]
  /\ first' = [first EXCEPT ![c] = total]
  /\ loaded' = [loaded EXCEPT ![c] = @ \union {"total"}]
  /\ UNCHANGED <<total, reserve, pc, qty, cur, second, out, peak>>

LoadReserve(c) ==
  /\ pc[c] \in Reading
  /\ "reserve" \notin loaded[c]
  /\ second' = [second EXCEPT ![c] = reserve]
  /\ loaded' = [loaded EXCEPT ![c] = @ \union {"reserve"}]
  /\ UNCHANGED <<total, reserve, pc, qty, cur, first, out, peak>>

ReturnBalance(c) ==
  /\ pc[c] = "get"
  /\ Loaded(c)
  /\ Return(c, "idle")
  /\ UNCHANGED <<total, reserve, out, peak>>

-----------------------------------------------------------------------------
\* reserveBalance(symbol, quantity)

NewReserve(c) == cur[c] + qty[c]

ReserveBalance(c, q) ==
  /\ pc[c] = "idle"
  /\ pc' = [pc EXCEPT ![c] = "reserve"]
  /\ qty' = [qty EXCEPT ![c] = q]
  /\ cur' = [cur EXCEPT ![c] = reserve]
  /\ UNCHANGED <<total, reserve, loaded, first, second, out, peak>>

\* Mutant: the balance net of the reserve is compared with the quantity alone.
MutNetOfQuantity(c) == Available(c) < qty[c] \/ NewReserve(c) < 0

Insufficient(c) == Available(c) < NewReserve(c) \/ NewReserve(c) < 0

Refuse(c) ==
  /\ pc[c] = "reserve"
  /\ Loaded(c)
  /\ Insufficient(c)
  /\ Return(c, "idle")
  /\ UNCHANGED <<total, reserve, out, peak>>

\* Mutant: reserveBalance returns true as soon as the swap succeeds.
MutReturnAfterSwap(c) ==
  /\ pc[c] = "reserve"
  /\ Loaded(c)
  /\ ~Insufficient(c)
  /\ reserve = cur[c]
  /\ reserve' = NewReserve(c)
  /\ out' = [out EXCEPT ![c] = qty[c]]
  /\ Return(c, "held")
  /\ UNCHANGED <<total, peak>>

CasReserve(c) ==
  /\ pc[c] = "reserve"
  /\ Loaded(c)
  /\ ~Insufficient(c)
  /\ reserve = cur[c]
  /\ reserve' = NewReserve(c)
  /\ out' = [out EXCEPT ![c] = qty[c]]
  /\ pc' = [pc EXCEPT ![c] = "recheck"]
  /\ Discard(c)
  /\ UNCHANGED <<total, qty, cur, peak>>

\* compare_exchange_weak may fail even when the values are equal.
CasReserveFails(c) ==
  /\ pc[c] = "reserve"
  /\ Loaded(c)
  /\ ~Insufficient(c)
  /\ cur' = [cur EXCEPT ![c] = reserve]
  /\ Discard(c)
  /\ UNCHANGED <<total, reserve, pc, qty, out, peak>>

\* Mutant: the balance is read again but not compared.
MutNoRecheck(c) ==
  /\ pc[c] = "recheck"
  /\ Loaded(c)
  /\ Return(c, "held")
  /\ UNCHANGED <<total, reserve, out, peak>>

Granted(c) ==
  /\ pc[c] = "recheck"
  /\ Loaded(c)
  /\ Available(c) >= NewReserve(c)
  /\ Return(c, "held")
  /\ UNCHANGED <<total, reserve, out, peak>>

\* The balance read after the swap is too small: undo, by unreserveBalance.
Rollback(c) ==
  /\ pc[c] = "recheck"
  /\ Loaded(c)
  /\ Available(c) < NewReserve(c)
  /\ pc' = [pc EXCEPT ![c] = "rollback"]
  /\ cur' = [cur EXCEPT ![c] = reserve]
  /\ Discard(c)
  /\ UNCHANGED <<total, reserve, qty, out, peak>>

-----------------------------------------------------------------------------
\* unreserveBalance(symbol, quantity).  The client gives back at most what it
\* holds, in one call or in several.

UnreserveBalance(c, q) ==
  /\ pc[c] = "held"
  /\ q <= out[c]
  /\ pc' = [pc EXCEPT ![c] = "release"]
  /\ qty' = [qty EXCEPT ![c] = q]
  /\ cur' = [cur EXCEPT ![c] = reserve]
  /\ UNCHANGED <<total, reserve, loaded, first, second, out, peak>>

\* Mutant: a plain store instead of the compare-and-swap.
MutPlainStore(c) ==
  /\ pc[c] \in {"rollback", "release"}
  /\ reserve' = cur[c] - qty[c]
  /\ out' = [out EXCEPT ![c] = @ - qty[c]]
  /\ Return(c, IF out[c] = qty[c] THEN "idle" ELSE "held")
  /\ UNCHANGED <<total, peak>>

CasUnreserve(c) ==
  /\ pc[c] \in {"rollback", "release"}
  /\ reserve = cur[c]
  /\ reserve' = cur[c] - qty[c]
  /\ out' = [out EXCEPT ![c] = @ - qty[c]]
  /\ Return(c, IF out[c] = qty[c] THEN "idle" ELSE "held")
  /\ UNCHANGED <<total, peak>>

\* Mutant: the failed swap does not reload currentReserve.
MutNoReload(c) ==
  /\ pc[c] \in {"rollback", "release"}
  /\ reserve # cur[c]
  /\ UNCHANGED vars

\* compare_exchange_strong fails only when the values differ.
CasUnreserveFails(c) ==
  /\ pc[c] \in {"rollback", "release"}
  /\ reserve # cur[c]
  /\ cur' = [cur EXCEPT ![c] = reserve]
  /\ UNCHANGED <<total, reserve, pc, qty, loaded, first, second, out, peak>>

-----------------------------------------------------------------------------

\* The steps of a call that has been made.
Step(c) ==
  \/ LoadTotal(c) \/ LoadReserve(c) \/ ReturnBalance(c)
  \/ Refuse(c) \/ CasReserve(c) \/ CasReserveFails(c)
  \/ Granted(c) \/ Rollback(c)
  \/ CasUnreserve(c) \/ CasUnreserveFails(c)

\* The calls a client may make.
Call(c) ==
  \/ GetBalance(c)
  \/ \E q \in Amounts : ReserveBalance(c, q) \/ UnreserveBalance(c, q)

Next ==
  \/ \E v \in Totals : UpdateBalance(v)
  \/ \E c \in Clients : Call(c) \/ Step(c)

Spec == Init /\ [][Next]_vars

\* A thread inside a call keeps running, and compare_exchange_weak does not
\* fail for ever when it could succeed.
FairSpec ==
  /\ Spec
  /\ \A c \in Clients : WF_vars(Step(c)) /\ SF_vars(CasReserve(c))

-----------------------------------------------------------------------------

\* Every variable keeps the range the declarations of exchange.h and the local
\* variables of reserveBalance give it.
TypeOK ==
  /\ total \in Nat
  /\ reserve \in Int
  /\ pc \in [Clients -> PCs]
  /\ qty \in [Clients -> 0..MaxAmount]
  /\ cur \in [Clients -> Int]
  /\ loaded \in [Clients -> SUBSET {"total", "reserve"}]
  /\ first \in [Clients -> Nat]
  /\ second \in [Clients -> Int]
  /\ out \in [Clients -> 0..MaxAmount]
  /\ peak \in Nat

\* Whatever the interleaving of the compare-and-swap loops, with their retries
\* and rollbacks, `reserve' is the sum of what the clients have inside it: no
\* reservation is lost, counted twice or left behind by a refused call.
ReserveAccounted == reserve = Sum(Clients, out)

\* The reserved amount never exceeds what the account has held: the balance a
\* client checks is read in two loads before its swap, and no schedule of
\* stale loads lets it push `reserve' beyond the largest total.
NeverOverReserved == reserve <= peak

\* reserveBalance compares the balance net of the reserve with the whole new
\* reserve, before the swap and again after it, so what the clients have been
\* granted at any moment is at most half of the largest total, even though no
\* two of the four loads are made at one moment.
Holding == {c \in Clients : pc[c] \in {"held", "release"}}
GrantedHalf == 2 * Sum(Holding, out) <= peak

\* Seen by the callers, the loads, swaps, retries and rollbacks are the atomic
\* grants and returns of BalanceLedger: a grant takes effect when reserveBalance
\* returns true, a return when the swap of unreserveBalance succeeds.
Ledger == INSTANCE BalanceLedger WITH
            granted <- [c \in Clients |-> IF c \in Holding THEN out[c] ELSE 0]
ImplementsLedger == Ledger!Spec

\* The loops are lock-free: a call that never gets out of its compare-and-swap
\* loop is defeated by calls of others that keep succeeding.
InLoop(c) == pc[c] \in {"reserve", "recheck", "rollback", "release"}
LockFree ==
  \A c \in Clients : []<>(~InLoop(c)) \/ []<><<reserve' # reserve>>_vars

=============================================================================
