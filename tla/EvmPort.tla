------------------------------ MODULE EvmPort ------------------------------
(***************************************************************************)
(* One transaction, from Chain.Transaction.apply through the port programs *)
(* that run its code.  Every call of a contract, nested ones too, runs in  *)
(* a port of its own (src/evm/main.cpp) whose Host caches the storage of   *)
(* the account it runs for; the Elixir process (src/lib/evm.ex) answers    *)
(* the Host from the state's account map, which is changed in place.       *)
(*                                                                         *)
(* What the code computes is open: a frame may read, write, call, create   *)
(* and end as it likes.  Gas is a number that is left over at the end.     *)
(***************************************************************************)
EXTENDS Integers, Sequences, FiniteSets, SequencesExt

CONSTANTS
    Account,      \* addresses
    Sender,       \* of the transaction, an account without code
    Coded,        \* accounts that have code
    Nobody,       \* address zero, the beneficiary of no one
    LastSlot,     \* the last key of a storage, 2^256 - 1
    Val,          \* values of storage slots, with 0
    Heir,         \* beneficiaries of accounts that destroy themselves
    PreloadBelow, \* an account with fewer slots is sent as a whole: 100
    ReadAhead,    \* EVM_STORAGE_READ_AHEAD
    DoubleSpend,  \* ChainDefinition.double_spend_delegatecall
    None,         \* no account
    Fee, Used,    \* gas limit and gas used, times the gas price
    Amount,       \* values of calls
    Balances, Stores, \* of the accounts before the transaction
    MaxFrames, MaxSteps \* bounds

Slot == 0 .. LastSlot
Port == 1 .. MaxFrames  \* port programs in the order they are opened

ASSUME PortAssumption ==
    /\ IsFiniteSet(Account) /\ LastSlot \in Nat /\ 0 \in Val /\ Coded \subseteq Account
    /\ Sender \in Account \ Coded /\ Nobody \notin Account /\ None \notin Account \cup {Nobody}
    /\ ReadAhead \in Nat /\ PreloadBelow \in Nat /\ Amount \subseteq Nat
    /\ Fee \in Nat /\ Used \in 0 .. Fee
    /\ Balances \in [Account -> Nat] /\ Stores \in [Account -> [Slot -> Val]]
    /\ Heir \subseteq Account \cup {Nobody} /\ MaxFrames \in Nat \ {0}

VARIABLES
    state,    \* [balance, store, there, coded]: the account map
    stack,    \* the frames, the running one last
    host,     \* what the Host of every port remembers
    idle,     \* the ports the process has used before, the last one first
    phase,    \* "ready", "running", or how the transaction ended
    steps,
    latest,   \* history: of every slot the value written last
    failed,   \* history: a frame has failed
    burned    \* history: what was left to no one

vars == <<state, stack, host, idle, phase, steps, latest, failed, burned>>

Top == stack[Len(stack)]
TopHost == host[Top.port]

-----------------------------------------------------------------------------
(* The Host: caches of one port program *)

\* Map: a function that grows, an entry at a time or by many at once
Over(f, g) == [x \in DOMAIN f \cup DOMAIN g |-> IF x \in DOMAIN f THEN f[x] ELSE g[x]]
Put(f, s, v) == [x \in DOMAIN f \cup {s} |-> IF x = s THEN v ELSE f[x]]

Forgotten == [complete |-> FALSE, cache |-> [s \in {} |-> 0], dirty |-> [s \in {} |-> 0]]

Filled(store) == {s \in Slot : store[s] # 0}

\* Variant: what the Host has written itself stays in its caches.
KeepCaches(h, store) ==
    IF Cardinality(Filled(store)) < PreloadBelow
    THEN [h EXCEPT !.complete = TRUE, !.cache = Over(@, [s \in Filled(store) |-> store[s]])]
    ELSE h

\* cache_account and read_updates: forget everything, then take all slots of a
\* small account.
Preload(h, store) ==
    IF Cardinality(Filled(store)) < PreloadBelow
    THEN [Forgotten EXCEPT !.complete = TRUE, !.cache = [s \in Filled(store) |-> store[s]]]
    ELSE Forgotten

\* storage_get_range: consecutive keys, as far as there are any
StoredRange(store, s) ==
    [k \in {j \in Slot : s <= j /\ j <= s + ReadAhead} |-> store[k]]

\* get_storage: the Host after it has asked, if it had to
Asked(h, store, s) ==
    IF s \in DOMAIN h.cache \/ h.complete THEN h
    ELSE [h EXCEPT !.cache = Over(StoredRange(store, s), @)]

GetStorage(h, store, s) ==
    LET known == Asked(h, store, s).cache
    IN  IF s \in DOMAIN known THEN known[s] ELSE 0

SetStorage(h, store, s, v) ==
    [Asked(h, store, s) EXCEPT !.cache = Put(@, s, v), !.dirty = Put(@, s, v)]

\* send_updates, process_updates: all that was written goes into the map
Flush(S, a, h) == [S EXCEPT !.store[a] = Over(h.dirty, @)]

-----------------------------------------------------------------------------
(* The Elixir side *)

\* Both accounts are read before either is written.
Move(S, from, to, v) ==
    [S EXCEPT !.balance = [@ EXCEPT ![from] = S.balance[from] - v, ![to] = S.balance[to] + v],
              !.there = @ \cup {to}]

\* Variant: a call to itself also moves the value.
TransferToSelf(S, kind, from, to, v) ==
    IF v = 0 \/ (kind = "delegatecall" /\ ~DoubleSpend) THEN S ELSE Move(S, from, to, v)

\* Variant: as in the blocks where double_spend_delegatecall holds.
TransferTwice(S, kind, from, to, v) == IF v = 0 \/ from = to THEN S ELSE Move(S, from, to, v)

\* do_call_contract
Transfer(S, kind, from, to, v) ==
    IF v = 0 \/ from = to \/ (kind = "delegatecall" /\ ~DoubleSpend) THEN S
    ELSE Move(S, from, to, v)

\* new_port: the one released last, or one that was never open
NewPort == IF idle # <<>> THEN Head(idle) ELSE Len(stack) + 1

\* The accounts that have destroyed themselves so far come from the caller.
Frame(a, from, v, dead, new) ==
    [addr |-> a, from |-> from, value |-> v, port |-> NewPort, dead |-> dead, new |-> new]

\* 'c' forgets what the port knew, 'p' and 'r' follow.
Enter(S, frame) ==
    /\ stack' = Append(stack, frame)
    /\ host' = [host EXCEPT ![frame.port] = Preload(Forgotten, S.store[frame.addr])]
    /\ idle' = IF idle = <<>> THEN idle ELSE Tail(idle)

\* The caller after a call that needed no port.
Resume(S) ==
    /\ host' = [host EXCEPT ![Top.port] = Preload(@, S.store[Top.addr])]
    /\ UNCHANGED <<stack, idle>>

\* One account that destroyed itself; a heir that is gone is there again.
Buried(r, death) ==
    LET a == death.addr
        left == r.state.balance[a]
        gone == [r.state EXCEPT !.balance[a] = 0, !.there = @ \ {a}, !.coded = @ \ {a},
                                !.store[a] = [s \in Slot |-> 0]]
    IN  IF death.heir \in {Nobody, a}
        THEN [state |-> gone, burned |-> r.burned + left]
        ELSE [state |-> [gone EXCEPT !.balance[death.heir] = @ + left,
                                     !.there = @ \cup {death.heir}],
              burned |-> r.burned]

\* eval_timed: all of them, the last one first
Bury(S, dead) ==
    LET after[i \in 0 .. Len(dead)] ==
            IF i = 0 THEN [state |-> S, burned |-> 0] ELSE Buried(after[i - 1], dead[i])
    IN  after[Len(dead)]

-----------------------------------------------------------------------------
(* The steps of the running frame *)

\* get_balance, which the VM asks before it calls or creates
Affordable(v) == v <= state.balance[Top.addr]

Running == phase = "running" /\ steps < MaxSteps /\ steps' = steps + 1

\* A read that the caches answer changes nothing.
SLoad(s) ==
    /\ Running
    /\ Asked(TopHost, state.store[Top.addr], s) # TopHost
    /\ host' = [host EXCEPT ![Top.port] = Asked(@, state.store[Top.addr], s)]
    /\ UNCHANGED <<state, stack, idle, phase, latest, failed, burned>>

SStore(s, v) ==
    /\ Running
    /\ host' = [host EXCEPT ![Top.port] = SetStorage(@, state.store[Top.addr], s, v)]
    /\ latest' = [latest EXCEPT ![Top.addr][s] = v]
    /\ UNCHANGED <<state, stack, idle, phase, failed, burned>>

\* The account whose storage a call of this kind works on.
Target(kind, to) == IF kind = "call" THEN to ELSE Top.addr
Caller(kind) == IF kind = "delegatecall" THEN Top.from ELSE Top.addr
Value(kind, v) == IF kind = "delegatecall" THEN Top.value ELSE v

\* What the Host has written goes first, then the value, then the code runs.
Call(kind, to, v) ==
    LET flushed == Flush(state, Top.addr, TopHost)
        target == Target(kind, to)
        paid == Transfer(flushed, kind, Caller(kind), target, Value(kind, v))
    IN  /\ Running
        /\ Affordable(v)
        /\ state' = paid
        /\ IF to \in state.coded
           THEN /\ Len(stack) < MaxFrames
                /\ Enter(paid, Frame(target, Caller(kind), Value(kind, v), Top.dead, FALSE))
           ELSE Resume(paid)
        /\ UNCHANGED <<phase, latest, failed, burned>>

\* do_create.  The new account has code once its constructor has returned it.
Create(new, v) ==
    LET made == Move(Flush(state, Top.addr, TopHost), Top.addr, new, v)
    IN  /\ Running
        /\ Affordable(v)
        /\ new \notin state.there
        /\ Len(stack) < MaxFrames
        /\ state' = made
        /\ Enter(made, Frame(new, Top.addr, v, Top.dead, TRUE))
        /\ UNCHANGED <<phase, latest, failed, burned>>

\* An account that is there is not overwritten: the call fails at once.
CreateCollides ==
    /\ Running
    /\ state' = Flush(state, Top.addr, TopHost)
    /\ UNCHANGED <<stack, host, idle, phase, latest, failed, burned>>

-----------------------------------------------------------------------------
(* The end of a frame.  Its updates are sent whether it succeeded or not.   *)

\* release_port
Release == idle' = <<Top.port>> \o idle

Returned == Front(stack)
Parent == Returned[Len(Returned)]

\* SELFDESTRUCT ends the frame too, with an heir.
Deaths(heir) ==
    IF heir = None THEN Top.dead ELSE <<[addr |-> Top.addr, heir |-> heir]>> \o Top.dead

Deployed(S) == IF Top.new THEN [S EXCEPT !.coded = @ \cup {Top.addr}] ELSE S

\* A nested call succeeds: the caller forgets its caches and preloads again.
Return(heir) ==
    LET S == Deployed(Flush(state, Top.addr, TopHost))
    IN  /\ Running /\ Len(stack) > 1
        /\ state' = S
        /\ Release
        /\ stack' = [Returned EXCEPT ![Len(Returned)].dead = Deaths(heir)]
        /\ host' = [host EXCEPT ![Parent.port] = Preload(@, S.store[Parent.addr])]
        /\ UNCHANGED <<phase, latest, failed, burned>>

\* A nested call fails, reverts or runs out of gas: the caller goes on with
\* the same map and with what its Host remembers.
Fail ==
    /\ Running /\ Len(stack) > 1
    /\ state' = Flush(state, Top.addr, TopHost)
    /\ Release
    /\ stack' = Returned
    /\ failed' = TRUE
    /\ UNCHANGED <<host, phase, latest, burned>>

-----------------------------------------------------------------------------
(* The transaction *)

\* apply: value and fee leave the sender, the value goes to the receiver, a
\* new account if the transaction creates one, and its code runs.
Begin(to, v, new) ==
    LET fee == [state EXCEPT !.balance[Sender] = @ - Fee]
        paid == Move(fee, Sender, to, v)
    IN  /\ phase = "ready"
        /\ to # Sender /\ v + Fee <= state.balance[Sender]
        /\ new => to \notin state.there
        /\ IF new \/ to \in state.coded
           THEN /\ state' = paid
                /\ Enter(paid, Frame(to, Sender, v, <<>>, new))
                /\ phase' = "running"
           ELSE /\ state' = [paid EXCEPT !.balance[Sender] = @ + Fee - Used]
                /\ phase' = "ok"
                /\ UNCHANGED <<stack, host, idle>>
        /\ UNCHANGED <<steps, latest, failed, burned>>

Finish(heir) ==
    LET S == Deployed(Flush(state, Top.addr, TopHost))
        end == Bury(S, Deaths(heir))
    IN  /\ Running /\ Len(stack) = 1
        /\ state' = [end.state EXCEPT !.balance[Sender] = @ + Fee - Used]
        /\ phase' = "ok"
        /\ Release
        /\ stack' = <<>>
        /\ burned' = burned + end.burned
        /\ latest' = [a \in Account |-> IF \E i \in DOMAIN Deaths(heir) : Deaths(heir)[i].addr = a
                                        THEN [s \in Slot |-> 0] ELSE latest[a]]
        /\ UNCHANGED <<host, failed>>

\* The sender's account is written as it was before, with the value and, after
\* a revert, with what is left of the fee; the map has changed in place.
Undo(outcome) ==
    LET back == IF outcome = "revert" THEN Balances[Sender] - Used ELSE Balances[Sender] - Fee
    IN  /\ Running /\ Len(stack) = 1
        /\ state' = [Flush(state, Top.addr, TopHost) EXCEPT !.balance[Sender] = back]
        /\ phase' = outcome
        /\ Release
        /\ stack' = <<>>
        /\ failed' = TRUE
        /\ UNCHANGED <<host, latest, burned>>

Init ==
    /\ state = [balance |-> Balances, store |-> Stores,
                there |-> Coded \cup {Sender}, coded |-> Coded]
    /\ stack = <<>> /\ idle = <<>>
    /\ host = [p \in Port |-> Forgotten]
    /\ phase = "ready" /\ steps = 0
    /\ latest = Stores /\ failed = FALSE /\ burned = 0

Next ==
    \/ \E to \in Account, v \in Amount, new \in BOOLEAN : Begin(to, v, new)
    \/ \E s \in Slot : SLoad(s) \/ \E v \in Val : SStore(s, v)
    \/ \E to \in Account, v \in Amount :
          Create(to, v) \/ \E kind \in {"call", "callcode", "delegatecall"} : Call(kind, to, v)
    \/ \E heir \in Heir \cup {None} : Return(heir) \/ Finish(heir)
    \/ CreateCollides \/ Fail \/ Undo("revert") \/ Undo("failure")

Spec == Init /\ [][Next]_vars

-----------------------------------------------------------------------------
(* Correctness *)

\* Value moves and is never made or lost, however calls nest, fail, create or
\* destroy accounts: what the accounts hold, what was left to no one and the
\* fee are what there was.
ValueKept ==
    LET fee == CASE phase = "ready" -> 0 [] phase = "running" -> Fee [] OTHER -> Used
    IN  phase \in {"ready", "running", "ok"}
            => SumFunction(state.balance) + burned + fee = SumFunction(Balances)

\* No account is overdrawn: do_call_contract, do_create and do_apply subtract
\* without asking, the VM of the running port has asked before for a call or a
\* creation, the check of the transaction for its value and its fee.
NoOverdraft == \A a \in Account : state.balance[a] >= 0

\* As long as no frame has failed the map holds the value written last to
\* every slot, but for what the running Host still has to send, and a Host
\* that has the whole account reads it.
LatestWriteCounts ==
    ~failed =>
        /\ \A a \in Account :
              (IF phase = "running" /\ a = Top.addr THEN Over(TopHost.dirty, state.store[a])
               ELSE state.store[a]) = latest[a]
        /\ phase = "running" /\ TopHost.complete =>
              \A s \in Slot : GetStorage(TopHost, state.store[Top.addr], s) = latest[Top.addr][s]

\* A transaction that fails changes nothing but its sender.
FailureChangesOnlySender ==
    phase \in {"revert", "failure"} =>
        \A a \in Account \ {Sender} :
            state.balance[a] = Balances[a] /\ state.store[a] = Stores[a]
=============================================================================
