---------------------------- MODULE SlotBinding ----------------------------
(***************************************************************************)
(* An LlmClient on a shared router whose routing is replaced under it      *)
(* (llm/client.rs): the slots it binds for a generation of the config, the *)
(* visit plan each operation captures against them, and the endpoints it   *)
(* names to the tools that call a provider themselves (llm/endpoint.rs).   *)
(* Operations of one client run at once: sessions share it, and subagents  *)
(* use it when they have no pool of their own.  The order of a plan is     *)
(* RouterSelect's; here a plan is in declared order.                       *)
(***************************************************************************)
EXTENDS Naturals, Sequences, FiniteSets, Functions

CONSTANTS
    Providers,
    Operations,     \* the threads that run operations on the client
    Routings,       \* the configs the host may set
    HostAllowed,    \* TransportBindings.allow_host_llm, with its hub
    MaxUpdates,     \* bound on replacements of the config
    NoProvider

\* A config, seen from one pool: its members in declared order (none: the
\* config has no such pool), those enabled, those on a host:// URL, those with
\* a key and a URL, those whose Responses API offers hosted web search.
\* LlmRoutingConfig::validate: no provider is a member twice.
ASSUME BindingAssumption ==
    /\ NoProvider \notin Providers
    /\ \A r \in Routings : /\ r.members \in Seq(Providers) /\ IsInjective(r.members)
                          /\ r.keyed \subseteq Providers

VARIABLES routings,    \* the configs set so far; the last is in force
          slots,       \* BoundSlots: the generation bound, and the providers
          op,          \* the operations, each in capture_operation or past it
          lastSuccess  \* the provider of the last successful visit

bindingVars == <<routings, slots, op, lastSuccess>>

Attempts == 4

Generation == Len(routings)
Routing    == routings[Generation]

Idle == [at |-> "idle", seen |-> 0, fresh |-> 0, allowed |-> {}, planned |-> 0,
         plan |-> <<>>, slots |-> 0, tries |-> 0, disturbed |-> FALSE]

-----------------------------------------------------------------------------
\* bind_http_slots: every member, but host:// ones only when they are allowed.
Bindable(routing) ==
    Range(routing.members) \ (IF HostAllowed THEN {} ELSE routing.host)

\* from_router_with_bindings.
BindingInit ==
    /\ \E r \in Routings : routings = <<r>> /\ r.members # <<>>
    /\ slots = [generation |-> 1, bound |-> Bindable(routings[1])]
    /\ op = [o \in Operations |-> Idle]
    /\ lastSuccess = NoProvider

\* The elements of a sequence that are in S, in its order.
Among(seq, S) ==
    LET among[n \in 0 .. Len(seq)] ==
          IF n = 0 THEN <<>>
          ELSE IF seq[n] \in S THEN Append(among[n - 1], seq[n]) ELSE among[n - 1]
    IN  among[Len(seq)]

Busy(o) == op[o].at \notin {"idle", "captured", "not_configured", "exhausted", "unbound",
                            "changed"}

\* LlmRouter.update_config by the host.  (disturbed: history.)
ReplaceRouting ==
    /\ Generation <= MaxUpdates
    /\ \E r \in Routings \ {Routing} : routings' = Append(routings, r)
    /\ op' = [o \in Operations |-> IF Busy(o) THEN [op[o] EXCEPT !.disturbed = TRUE] ELSE op[o]]
    /\ UNCHANGED <<slots, lastSuccess>>

-----------------------------------------------------------------------------
\* ---- capture_operation, one step for each time it takes a lock

\* The snapshot of one of the attempts.
TakeSnapshot(o) ==
    /\ op[o].at \in {"idle", "again"}
    /\ op' = [op EXCEPT ![o].at = "checking", ![o].seen = Generation,
                        ![o].tries = op[o].tries + 1]
    /\ UNCHANGED <<routings, slots, lastSuccess>>

\* sync_slots: are the slots those of the generation seen?
CheckSlots(o) ==
    /\ op[o].at = "checking"
    /\ op' = [op EXCEPT ![o].at = IF slots.generation = op[o].seen THEN "bound" ELSE "binding",
                        ![o].seen = 0]
    /\ UNCHANGED <<routings, slots, lastSuccess>>

\* sync_slots takes a snapshot of its own to bind, perhaps a later one.
BindSlots(o) ==
    /\ op[o].at = "binding"
    /\ op' = [op EXCEPT ![o].at = IF Routing.members = <<>> THEN "not_configured"
                                  ELSE "storing",
                        ![o].fresh = Generation]
    /\ UNCHANGED <<routings, slots, lastSuccess>>

\* The slots bound from a config that has been replaced since disturb every
\* operation that runs.  (disturbed: history.)
StoreSlots(o) ==
    /\ op[o].at = "storing"
    /\ slots' = [generation |-> op[o].fresh, bound |-> Bindable(routings[op[o].fresh])]
    /\ op' = [p \in Operations |->
                [op[p] EXCEPT !.at = IF p = o THEN "bound" ELSE @,
                              !.fresh = IF p = o THEN 0 ELSE @,
                              !.disturbed = @ \/ (Busy(p) /\ op[o].fresh < Generation)]]
    /\ UNCHANGED <<routings, lastSuccess>>

ReadAllowed(o) ==
    /\ op[o].at = "bound"
    /\ op' = [op EXCEPT ![o].at = "planning", ![o].allowed = slots.bound]
    /\ UNCHANGED <<routings, slots, lastSuccess>>

\* LlmRouter.plan_visit_filtered under the config now in force.
PlanVisit(o) ==
    LET enabled == Among(Routing.members, op[o].allowed \cap Routing.enabled)
    IN  /\ op[o].at = "planning"
        /\ op' = [op EXCEPT
                    ![o].at = IF Routing.members = <<>> THEN "not_configured"
                              ELSE IF enabled = <<>> THEN "exhausted" ELSE "planned",
                    ![o].allowed = {},
                    ![o].planned = Generation,
                    ![o].plan = enabled]
        /\ UNCHANGED <<routings, slots, lastSuccess>>

\* Faulty variant: whatever generation the slots are of.
CaptureUnchecked(o) ==
    /\ op[o].at = "planned"
    /\ op' = [op EXCEPT ![o].at = "captured", ![o].slots = slots.generation]
    /\ UNCHANGED <<routings, slots, lastSuccess>>

\* The plan is taken with the slots of its generation, or not at all.
CaptureOperation(o) ==
    /\ op[o].at = "planned"
    /\ op' = [op EXCEPT
                ![o].at = IF slots.generation # op[o].planned
                          THEN IF op[o].tries < Attempts THEN "again" ELSE "changed"
                          ELSE IF Range(op[o].plan) \subseteq slots.bound THEN "captured"
                          ELSE "unbound",
                ![o].slots = slots.generation]
    /\ UNCHANGED <<routings, slots, lastSuccess>>

\* The visits (LlmClient): one of the plan's providers succeeds, or none does.
FinishOperation(o) ==
    /\ op[o].at # "idle" /\ ~Busy(o)
    /\ \/ op[o].at = "captured" /\ \E p \in Range(op[o].plan) : lastSuccess' = p
       \/ UNCHANGED lastSuccess
    /\ op' = [op EXCEPT ![o] = Idle]
    /\ UNCHANGED <<routings, slots>>

OperationStep(o) ==
    \/ TakeSnapshot(o) \/ CheckSlots(o) \/ BindSlots(o) \/ StoreSlots(o)
    \/ ReadAllowed(o) \/ PlanVisit(o) \/ CaptureOperation(o) \/ FinishOperation(o)

-----------------------------------------------------------------------------
\* ---- the endpoints for tools

\* last_success_provider_id, or else primary_provider_id.
CurrentMember ==
    LET enabled == Among(Routing.members, Routing.enabled) IN
    IF lastSuccess \in Range(Routing.members) THEN lastSuccess
    ELSE IF enabled = <<>> THEN NoProvider ELSE Head(enabled)

\* current_endpoint.
CurrentEndpoint ==
    IF CurrentMember \in Routing.keyed THEN <<CurrentMember>> ELSE <<>>

\* fallback_endpoints.
FallbackEndpoints ==
    Among(Routing.members, (Routing.enabled \cap Routing.keyed) \ {CurrentMember})

-----------------------------------------------------------------------------
\* What an operation captures is one config's: the slots of every provider of
\* its plan, and the generation of the plan.  And an operation during which no
\* config was replaced, nor slots of an older one stored, is given all there
\* is to visit, and fails only when there is nothing.  "Configuration
\* replacement and selection observe a coherent versioned snapshot".
CapturesCoherent ==
    \A o \in Operations :
        LET settled == op[o].at # "idle" /\ ~Busy(o)
            visitable(r) == Bindable(r) \cap r.enabled
        IN  /\ op[o].at = "captured" =>
                  /\ op[o].slots = op[o].planned
                  /\ Range(op[o].plan) \subseteq visitable(routings[op[o].planned])
            /\ settled /\ ~op[o].disturbed =>
                  \/ op[o].at = "captured"
                        /\ Range(op[o].plan) = visitable(routings[op[o].planned])
                  \/ op[o].at \in {"not_configured", "exhausted"}
                        /\ \E r \in Range(routings) : visitable(r) = {}
=============================================================================
