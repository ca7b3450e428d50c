------------------------------- MODULE Hooks -------------------------------
(***************************************************************************)
(* Hook chains and suspended operations, ircd/hooks.c, with the one caller *)
(* that suspends (auth_module_check() and auth_module_resume() of          *)
(* ircd/s_auth.c), the exit of a client (ircd/s_misc.c) and the unloading  *)
(* of a module (ircd/module.c).                                            *)
(*                                                                         *)
(* Everything runs on the main thread, but a hook may call back into all   *)
(* of it, so the state has a stack of activation records; only the top one *)
(* moves.  Kinds of record:                                                *)
(*   run, suspend, command  a chain is being run and stands on a hook      *)
(*   record                 the chain was suspended; hooks are reaped and  *)
(*                          hook_run_suspendable() still uses `held'       *)
(*   exit                   exit_client(), its notification running        *)
(*   expire, unload         the loops that refuse holds one at a time      *)
(*   unmap                  the rest of an unload, once the hooks are gone *)
(* A command hook may be skipped for its command or flags (h_cmd,          *)
(* h_flags); the model skips any.                                          *)
(***************************************************************************)
EXTENDS Naturals, FiniteSets, Sequences, SequencesExt

CONSTANTS
    Modules, Clients, NoModule, NoClient,
    Priorities,     \* values of h_priority
    MaxHooks,       \* bound on hooks registered at once
    MaxStack,       \* bound on nested activation records
    MaxCommands,    \* HOOK_COMMAND_MAX_DEPTH
    MaxPending,     \* HOOK_PENDING_MAX
    MaxToken,       \* largest hook_token_t
    Timeouts,       \* values FEAT_HOOK_TIMEOUT is given
    MaxTime,        \* bound on the clock
    Tidy,           \* a hook that suspends leaves itself registered
    Polite,         \* no module answers about a client that is exiting
    Careful         \* no module is unloaded from inside a hook of its own

ASSUME HooksAssumption ==
    /\ NoModule \notin Modules /\ NoClient \notin Clients
    /\ Priorities \subseteq Nat /\ Timeouts \subseteq Nat \ {0}
    /\ MaxHooks \in Nat /\ MaxStack \in Nat /\ MaxCommands \in Nat
    /\ MaxPending \in Nat /\ MaxToken \in Nat \ {0} /\ MaxTime \in Nat
    /\ MaxToken > MaxPending
    /\ Tidy \in BOOLEAN /\ Polite \in BOOLEAN /\ Careful \in BOOLEAN

VARIABLES
    loaded,         \* modules loaded
    chain, count,   \* hooks[type].chain and .count
    reapPending,    \* hook_reap_pending
    stack,          \* activation records
    holds,          \* hook_pending_list
    lastToken,      \* hook_last_token
    owed,           \* answers the modules still mean to give
    armed,          \* when hook_timer fires; 0 when it is not armed
    timeout, now,   \* FEAT_HOOK_TIMEOUT, CurrentTime
    client          \* what has become of each client's registration

vars == <<loaded, chain, count, reapPending, stack, holds, lastToken, owed,
          armed, timeout, now, client>>

Types == {"pre", "note", "command"}
Kinds == {"run", "suspend", "command", "record", "exit", "expire", "unload",
          "unmap"}
Results == {"continue", "allow", "deny", "pending"}

Nodes == [id : 1..MaxHooks, mod : Modules, prio : Priorities, dead : BOOLEAN]

Holds == [token : 1..MaxToken, mod : Modules, client : Clients,
          deadline : 1..MaxTime]

Frames == [kind : Kinds, type : Types, at : 0..MaxHooks,
           client : Clients \cup {NoClient}, token : 0..MaxToken,
           mod : Modules \cup {NoModule}]

Init ==
    /\ loaded = Modules
    /\ chain = [t \in Types |-> <<>>] /\ count = [t \in Types |-> 0]
    /\ reapPending = FALSE /\ stack = <<>>
    /\ holds = {} /\ lastToken = 0 /\ owed = {}
    /\ armed = 0 /\ timeout \in Timeouts /\ now = 0
    /\ client = [c \in Clients |-> "new"]

----------------------------------------------------------------------------
(* The stack.                                                              *)
Frame(kind, type, c, token, m) ==
    [kind |-> kind, type |-> type, at |-> 0, client |-> c, token |-> token,
     mod |-> m]

Dispatches(f) == f.kind \in {"run", "suspend", "command"}
RunDepth(s) == Len(SelectSeq(s, Dispatches))
CommandDepth(s) == Len(SelectSeq(s, LAMBDA f : f.kind = "command"))

Top == Last(stack)
Below == Front(stack)
OnTop(kind) == stack # <<>> /\ Top.kind = kind
Idle == stack = <<>>
InHook == stack # <<>> /\ Dispatches(Top)

LinkedIn(t) == ToSet(chain[t])
Linked == UNION {LinkedIn(t) : t \in Types}
NodeAt(f) == CHOOSE n \in LinkedIn(f.type) : n.id = f.at
Exiting(c) == \E i \in DOMAIN stack : stack[i].kind = "exit" /\ stack[i].client = c

(* Module m's code runs: in a hook, from an event of its own, or in a      *)
(* callback that is failed because the driver of another module goes.  A   *)
(* module is assumed to register nothing once its own mi_fini has run.     *)
Acting(m) ==
    /\ m \in loaded
    /\ \/ Idle
       \/ InHook /\ NodeAt(Top).mod = m
       \/ OnTop("unmap") /\ \A i \in DOMAIN stack : stack[i].mod # m

(* Something else happens: from the event loop, or caused by a hook or by  *)
(* what an unload takes away.                                              *)
Open == (Idle \/ InHook \/ OnTop("unmap")) /\ Len(stack) + 2 <= MaxStack

----------------------------------------------------------------------------
(* Running a chain.  The dispatch loop goes to the next live hook; when it *)
(* stops, the outermost run frees the hooks that died meanwhile.           *)
Stops(f, i) ==
    LET live == {j \in i..Len(chain[f.type]) : ~chain[f.type][j].dead}
    IN  IF f.kind = "command" THEN live
        ELSE {j \in live : \A k \in live : j <= k}

(* exit_client(): the notification runs before anything is torn down.      *)
ExitStack(s, c) ==
    LET f == Frame("run", "note", c, 0, NoModule)
    IN  s \o <<Frame("exit", "note", c, 0, NoModule)>>
          \o (IF count["note"] = 0 THEN <<>>
              ELSE <<[f EXCEPT !.at =
                        chain["note"][CHOOSE j \in Stops(f, 1) : TRUE].id]>>)

HookReapNever(s) == UNCHANGED <<chain, reapPending>>

HookReap(s) ==
    IF RunDepth(s) = 0 /\ reapPending
    THEN /\ chain' = [t \in Types |-> SelectSeq(chain[t], LAMBDA n : ~n.dead)]
         /\ reapPending' = FALSE
    ELSE UNCHANGED <<chain, reapPending>>

(* The end of hook_run(), hook_run_command() and hook_run_suspendable(),   *)
(* and what auth_module_check() does with the result.                      *)
Unwind(f, s, result) ==
    /\ HookReap(s)
    /\ IF f.kind # "suspend" THEN stack' = s /\ UNCHANGED client
       ELSE \/ /\ result = "pending"
               /\ stack' = Append(s, [f EXCEPT !.kind = "record"])
               /\ UNCHANGED client
            \/ /\ result = "deny"
               /\ stack' = ExitStack(s, f.client)
               /\ UNCHANGED client
            \/ /\ result \in {"continue", "allow"}
               /\ stack' = s
               /\ client' = [client EXCEPT ![f.client] = "in"]

Walk(f, s, i) ==
    \/ \E j \in Stops(f, i) :
          /\ stack' = Append(s, [f EXCEPT !.at = chain[f.type][j].id])
          /\ UNCHANGED <<chain, reapPending, client>>
    \/ /\ Stops(f, i) = {} \/ f.kind = "command"
       /\ Unwind(f, s, "continue")

Notify ==
    /\ Open /\ count["note"] # 0
    /\ Walk(Frame("run", "note", NoClient, 0, NoModule), stack, 1)
    /\ UNCHANGED <<loaded, count, holds, lastToken, owed, armed, timeout, now>>

HookRunCommand ==
    /\ Open /\ count["command"] # 0 /\ CommandDepth(stack) < MaxCommands
    /\ Walk(Frame("command", "command", NoClient, 0, NoModule), stack, 1)
    /\ UNCHANGED <<loaded, count, holds, lastToken, owed, armed, timeout, now>>

(* hook_token_new(): neither zero nor outstanding, also after a wrap.      *)
TokenAfter(k) == (lastToken + k) % (MaxToken + 1)

TokenNewZero ==
    LET free == {k \in 1..(MaxToken + 1) :
                    \A h \in holds : h.token # TokenAfter(k)}
    IN  TokenAfter(CHOOSE k \in free : \A l \in free : k <= l)

TokenNewUnchecked ==
    IF TokenAfter(1) = 0 THEN 1 ELSE TokenAfter(1)

TokenNew ==
    LET free == {k \in 1..(MaxToken + 1) :
                    /\ TokenAfter(k) # 0
                    /\ \A h \in holds : h.token # TokenAfter(k)}
    IN  TokenAfter(CHOOSE k \in free : \A l \in free : k <= l)

(* Modules answer, or forget, before the counter has come round to them.   *)
Forgotten(token) ==
    \A o \in owed : o.token = token => \E h \in holds : h.token = token

(* auth_module_check(), for a client nobody was asked about yet.           *)
AuthModuleCheck(c) ==
    /\ Idle /\ client[c] = "new" /\ now + timeout <= MaxTime
    /\ IF count["pre"] = 0
       THEN /\ client' = [client EXCEPT ![c] = "in"]
            /\ UNCHANGED <<chain, reapPending, stack, lastToken>>
       ELSE /\ Forgotten(TokenNew)
            /\ lastToken' = TokenNew
            /\ Walk(Frame("suspend", "pre", c, TokenNew, NoModule), stack, 1)
    /\ UNCHANGED <<loaded, count, holds, owed, armed, timeout, now>>

(* The hook returns.  A HOOK_PENDING that cannot be honoured is read as    *)
(* HOOK_CONTINUE.                                                          *)
Return(result) ==
    /\ InHook
    /\ LET at == CHOOSE j \in DOMAIN chain[Top.type] :
                    chain[Top.type][j].id = Top.at
           on == result = "continue" \/ (result = "pending" /\ Top.kind # "suspend")
       IN  IF on THEN Walk(Top, Below, at + 1) /\ UNCHANGED owed
           ELSE /\ (result = "pending" /\ Tidy) => ~NodeAt(Top).dead
                /\ Unwind(Top, Below, result)
                /\ owed' = IF result # "pending" THEN owed
                           ELSE owed \cup {[mod |-> NodeAt(Top).mod,
                                            token |-> Top.token,
                                            client |-> Top.client]}
    /\ UNCHANGED <<loaded, count, holds, lastToken, armed, timeout, now>>

----------------------------------------------------------------------------
(* Registration and removal of hooks.                                      *)
HookAdd(m, t, p) ==
    /\ Acting(m) /\ Cardinality(Linked) < MaxHooks
    /\ LET id   == CHOOSE i \in 1..MaxHooks : \A n \in Linked : n.id # i
           node == [id |-> id, mod |-> m, prio |-> p, dead |-> FALSE]
           upto == Cardinality({j \in DOMAIN chain[t] : chain[t][j].prio <= p})
       IN  chain' = [chain EXCEPT ![t] = InsertAt(@, upto + 1, node)]
    /\ count' = [count EXCEPT ![t] = @ + 1]
    /\ UNCHANGED <<loaded, reapPending, stack, holds, lastToken, owed, armed,
                   timeout, now, client>>

DetachFrees(N, s) ==
    /\ chain' = [t \in Types |-> SelectSeq(chain[t], LAMBDA n : n \notin N)]
    /\ UNCHANGED reapPending

(* The hooks in N go: marked while a chain runs, freed otherwise.          *)
Detach(N, s) ==
    IF RunDepth(s) > 0
    THEN /\ chain' = [t \in Types |-> [j \in DOMAIN chain[t] |->
                        [chain[t][j] EXCEPT !.dead = @ \/ chain[t][j] \in N]]]
         /\ reapPending' = (reapPending \/ N # {})
    ELSE /\ chain' = [t \in Types |->
                        SelectSeq(chain[t], LAMBDA n : n \notin N)]
         /\ UNCHANGED reapPending

HookDelForgets(m, t, n) ==
    /\ Acting(m) /\ n.mod = m /\ ~n.dead
    /\ Detach({n}, stack)
    /\ count' = IF InHook THEN count ELSE [count EXCEPT ![t] = @ - 1]
    /\ UNCHANGED <<loaded, stack, holds, lastToken, owed, armed, timeout, now,
                   client>>

(* hook_del(), hook_del_command().                                         *)
HookDel(m, t, n) ==
    /\ Acting(m) /\ n.mod = m /\ ~n.dead
    /\ Detach({n}, stack)
    /\ count' = [count EXCEPT ![t] = @ - 1]
    /\ UNCHANGED <<loaded, stack, holds, lastToken, owed, armed, timeout, now,
                   client>>

----------------------------------------------------------------------------
(* Holds.                                                                  *)
Deadlines(H) == {h.deadline : h \in H}

(* hook_pending_arm()                                                      *)
PendingArm(H) ==
    armed' = IF armed # 0 \/ H = {} THEN armed
             ELSE CHOOSE d \in Deadlines(H) : \A e \in Deadlines(H) : d <= e

(* The end of hook_run_suspendable(): it reads the hook that suspended,    *)
(* and whatever the allocator left there if that hook is gone.             *)
PendingRecord ==
    /\ OnTop("record")
    /\ LET nodes == {n \in LinkedIn("pre") : n.id = Top.at}
           mods  == IF nodes = {} THEN Modules ELSE {n.mod : n \in nodes}
       IN  IF Cardinality(holds) >= MaxPending
           THEN /\ stack' = ExitStack(Below, Top.client)
                /\ UNCHANGED <<holds, armed, client>>
           ELSE /\ \E m \in mods :
                      holds' = holds \cup {[token |-> Top.token, mod |-> m,
                                            client |-> Top.client,
                                            deadline |-> now + timeout]}
                /\ PendingArm(holds')
                /\ stack' = Below
                /\ client' = [client EXCEPT ![Top.client] = "held"]
    /\ UNCHANGED <<loaded, chain, count, reapPending, lastToken, owed, timeout,
                   now>>

(* The hold is off the list before auth_module_resume() runs.              *)
AuthModuleResume(h, result) ==
    /\ holds' = holds \ {h}
    /\ IF result = "deny"
       THEN stack' = ExitStack(stack, h.client) /\ UNCHANGED client
       ELSE /\ client' = [client EXCEPT ![h.client] = "in"]
            /\ UNCHANGED stack

(* hook_resume(): a token that is no longer outstanding does nothing.  The *)
(* module may answer again later.                                          *)
HookResume(m, o, result) ==
    /\ Acting(m) /\ Open /\ o.mod = m
    /\ Polite => ~Exiting(o.client)
    /\ owed' \in {owed, owed \ {o}}
    /\ \/ \E h \in holds : h.token = o.token /\ AuthModuleResume(h, result)
       \/ /\ \A h \in holds : h.token # o.token
          /\ UNCHANGED <<holds, stack, client>>
    /\ UNCHANGED <<loaded, chain, count, reapPending, lastToken, armed, timeout,
                   now>>

(* hook_timer fires, hook_pending_timeout().                               *)
TimerFires ==
    /\ Idle /\ armed # 0 /\ armed <= now
    /\ armed' = 0
    /\ stack' = <<Frame("expire", "note", NoClient, 0, NoModule)>>
    /\ UNCHANGED <<loaded, chain, count, reapPending, holds, lastToken, owed,
                   timeout, now, client>>

PendingExpireUnarmed ==
    /\ OnTop("expire")
    /\ LET late == {h \in holds : h.deadline <= now}
       IN  \/ \E h \in late : AuthModuleResume(h, "deny")
           \/ /\ late = {}
              /\ stack' = Below
              /\ UNCHANGED <<holds, client>>
    /\ UNCHANGED <<loaded, chain, count, reapPending, lastToken, owed, armed,
                   timeout, now>>

PendingExpire ==
    /\ OnTop("expire")
    /\ LET late == {h \in holds : h.deadline <= now}
       IN  \/ /\ \E h \in late : AuthModuleResume(h, "deny")
              /\ UNCHANGED armed
           \/ /\ late = {}
              /\ stack' = Below
              /\ PendingArm(holds)
              /\ UNCHANGED <<holds, client>>
    /\ UNCHANGED <<loaded, chain, count, reapPending, lastToken, owed, timeout,
                   now>>

----------------------------------------------------------------------------
(* Clients.  A hook asked about a registration refuses it with HOOK_DENY;  *)
(* it is assumed not to exit that client itself.                           *)
ExitClient(c) ==
    /\ Open /\ ~Exiting(c) /\ client[c] # "gone"
    /\ \A i \in DOMAIN stack : stack[i].kind = "suspend" => stack[i].client # c
    /\ stack' = ExitStack(stack, c)
    /\ UNCHANGED <<loaded, chain, count, reapPending, holds, lastToken, owed,
                   armed, timeout, now, client>>

ExitDoneKeeps ==
    /\ OnTop("exit")
    /\ client' = [client EXCEPT ![Top.client] = "gone"]
    /\ stack' = Below
    /\ UNCHANGED <<loaded, chain, count, reapPending, holds, lastToken, owed,
                   armed, timeout, now>>

(* The notification is over: hook_pending_cancel(), and the client goes.   *)
ExitDone ==
    /\ OnTop("exit")
    /\ holds' = {h \in holds : h.client # Top.client}
    /\ client' = [client EXCEPT ![Top.client] = "gone"]
    /\ stack' = Below
    /\ UNCHANGED <<loaded, chain, count, reapPending, lastToken, owed, armed,
                   timeout, now>>

Connect(c) ==
    /\ Idle /\ client[c] = "gone"
    /\ client' = [client EXCEPT ![c] = "new"]
    /\ UNCHANGED <<loaded, chain, count, reapPending, stack, holds, lastToken,
                   owed, armed, timeout, now>>

----------------------------------------------------------------------------
(* Modules.  Unloading reaches hook_del_module() after mi_fini has run.    *)
(* module_in_callback() does not count hooks, so it refuses nothing here;  *)
(* that a module is not unloaded twice at once is assumed.                 *)
Unload(m) ==
    /\ Open /\ m \in loaded
    /\ \A i \in DOMAIN stack :
          /\ stack[i].mod # m
          /\ (Careful /\ Dispatches(stack[i])) => NodeAt(stack[i]).mod # m
    /\ stack' = Append(stack, Frame("unload", "note", NoClient, 0, m))
    /\ UNCHANGED <<loaded, chain, count, reapPending, holds, lastToken, owed,
                   armed, timeout, now, client>>

HookDelModuleKeeps ==
    /\ OnTop("unload")
    /\ LET m == Top.mod
       IN  /\ Detach({n \in Linked : n.mod = m}, Below)
           /\ count' = [t \in Types |-> count[t] -
                          Cardinality({n \in LinkedIn(t) : n.mod = m /\ ~n.dead})]
           /\ stack' = Append(Below, [Top EXCEPT !.kind = "unmap"])
    /\ UNCHANGED <<loaded, holds, owed, client, lastToken, armed, timeout, now>>

(* hook_del_module(): the holds one at a time, and then the hooks.         *)
HookDelModule ==
    /\ OnTop("unload")
    /\ LET m    == Top.mod
           mine == {h \in holds : h.mod = m}
       IN  \/ /\ \E h \in mine : AuthModuleResume(h, "deny")
              /\ UNCHANGED <<chain, count, reapPending>>
           \/ /\ mine = {}
              /\ Detach({n \in Linked : n.mod = m}, Below)
              /\ count' = [t \in Types |-> count[t] -
                             Cardinality({n \in LinkedIn(t) : n.mod = m /\ ~n.dead})]
              /\ stack' = Append(Below, [Top EXCEPT !.kind = "unmap"])
              /\ UNCHANGED <<holds, client>>
    /\ UNCHANGED <<loaded, owed, lastToken, armed, timeout, now>>

(* The module's bots, database and cache calls, modes and capabilities are *)
(* gone too, with whatever that set off: it is unlinked and unmapped.      *)
Unmap ==
    /\ OnTop("unmap")
    /\ loaded' = loaded \ {Top.mod}
    /\ owed' = {o \in owed : o.mod # Top.mod}
    /\ stack' = Below
    /\ UNCHANGED <<chain, count, reapPending, holds, lastToken, armed, timeout,
                   now, client>>

(* module_load(): the module is linked; HookAdd is what its mi_init does.  *)
(* A load that fails after this point is undone by an unload.              *)
Load(m) ==
    /\ Idle /\ m \notin loaded
    /\ loaded' = loaded \cup {m}
    /\ UNCHANGED <<chain, count, reapPending, stack, holds, lastToken, owed,
                   armed, timeout, now, client>>

SetTimeout(t) ==
    /\ Idle /\ timeout # t
    /\ timeout' = t
    /\ UNCHANGED <<loaded, chain, count, reapPending, stack, holds, lastToken,
                   owed, armed, now, client>>

Tick ==
    /\ Idle /\ now < MaxTime
    /\ now' = now + 1
    /\ UNCHANGED <<loaded, chain, count, reapPending, stack, holds, lastToken,
                   owed, armed, timeout, client>>

Next ==
    \/ \E m \in Modules, t \in Types, p \in Priorities : HookAdd(m, t, p)
    \/ \E m \in Modules, t \in Types : \E n \in LinkedIn(t) : HookDel(m, t, n)
    \/ Notify \/ HookRunCommand
    \/ \E c \in Clients : AuthModuleCheck(c)
    \/ \E r \in Results : Return(r)
    \/ PendingRecord
    \/ \E m \in Modules, o \in owed, r \in {"allow", "deny"} : HookResume(m, o, r)
    \/ TimerFires \/ PendingExpire
    \/ \E c \in Clients : ExitClient(c) \/ Connect(c)
    \/ ExitDone
    \/ \E m \in Modules : Unload(m) \/ Load(m)
    \/ HookDelModule \/ Unmap
    \/ \E t \in Timeouts : SetTimeout(t)
    \/ Tick

Spec == Init /\ [][Next]_vars

(* Hooks return, however often they call back into the server first; the   *)
(* server's own loops go on; and the event loop keeps coming back to the   *)
(* clock and to the timers.                                                *)
Proceed(d) ==
    /\ Len(stack) = d
    /\ \/ \E r \in Results : Return(r)
       \/ PendingRecord \/ PendingExpire \/ ExitDone \/ HookDelModule \/ Unmap

FairSpec ==
    /\ Spec
    /\ \A d \in 1..(MaxStack + 2) : SF_vars(Proceed(d))
    /\ SF_vars(TimerFires) /\ SF_vars(Tick)

----------------------------------------------------------------------------
(* Hooks, holds and activation records keep the types of hooks.c.          *)
TypeOK ==
    /\ loaded \subseteq Modules
    /\ \A t \in Types : ToSet(chain[t]) \subseteq Nodes
    /\ count \in [Types -> 0..MaxHooks] /\ reapPending \in BOOLEAN
    /\ ToSet(stack) \subseteq Frames /\ holds \subseteq Holds
    /\ lastToken \in 0..MaxToken /\ armed \in 0..MaxTime
    /\ client \in [Clients -> {"new", "held", "in", "gone"}]

(* "it must not free the node the dispatch loop is standing on" (hooks.c,  *)
(* on hook_run_depth): every hook a run stands on, or still reads from, is *)
(* linked, however runs, removals and unloads nest.                        *)
StandsOnLinked ==
    \A i \in DOMAIN stack :
        (Dispatches(stack[i]) \/ stack[i].kind = "record") =>
            \E n \in LinkedIn(stack[i].type) : n.id = stack[i].at

(* hooks[type].count, which the call sites test before running a chain, is *)
(* the number of hooks a run would call: none is missed and none counted   *)
(* twice when a hook dies in several ways at once.                         *)
CountIsLive ==
    \A t \in Types : count[t] = Cardinality({n \in LinkedIn(t) : ~n.dead})

(* Once no chain runs, the hooks that died are freed: none is left linked  *)
(* with a pointer into a module that is gone.                              *)
ReapedWhenIdle ==
    RunDepth(stack) = 0 => ~reapPending /\ \A n \in Linked : ~n.dead

(* A hook that can still be called, and a hold, belong to a loaded module. *)
OwnersLoaded ==
    /\ \A n \in Linked : ~n.dead => n.mod \in loaded
    /\ \A h \in holds : h.mod \in loaded

(* A token names one question: the answer a module means to give decides   *)
(* the operation it was asked about or nothing, never another client's.    *)
AnswersOwnQuestion ==
    /\ \A g, h \in holds : g.token = h.token => g = h
    /\ \A o \in owed, h \in holds :
          o.token = h.token => o.client = h.client /\ o.mod = h.mod

(* A client that waits is waited for: while it is held there is exactly    *)
(* one hold for it, unless it is on its way out; and no hold outlives the  *)
(* client, so auth_module_resume() never runs on a freed AuthRequest.      *)
HeldByOne ==
    /\ \A h \in holds : client[h.client] = "held"
    /\ \A c \in Clients : client[c] = "held" =>
          \/ Cardinality({h \in holds : h.client = c}) = 1
          \/ Exiting(c)

(* "Make sure the timer will fire by the earliest outstanding deadline"    *)
(* (hooks.c, on hook_pending_arm()).                                       *)
DeadlineArmed ==
    (holds # {} /\ \A i \in DOMAIN stack : stack[i].kind # "expire") =>
        armed # 0 /\ \A h \in holds : armed <= h.deadline

(* "The hold has a deadline [...] and expiring counts as HOOK_DENY"         *)
(* (doc/readme.modules): a held registration ends, whatever the module     *)
(* does or fails to do.                                                    *)
HeldDecided ==
    \A c \in Clients : client[c] = "held" ~> client[c] # "held"

(* "refusing it would call back into exit_client() for a client already    *)
(* exiting" (s_misc.c): a client that is exiting is not exited again.      *)
ExitsOnce ==
    \A i, j \in DOMAIN stack :
        (/\ stack[i].kind = "exit" /\ stack[j].kind = "exit"
         /\ stack[i].client = stack[j].client) => i = j

(* "Unloading a module from inside one of its own callbacks would free the *)
(* code that is currently executing, so the server refuses to do it"       *)
(* (module.h): no unload of a module begins while a hook of it runs.       *)
RefusedInOwnHook ==
    \A i, j \in DOMAIN stack :
        (Dispatches(stack[i]) /\ j > i /\ stack[j].kind = "unload") =>
            NodeAt(stack[i]).mod # stack[j].mod

=============================================================================
