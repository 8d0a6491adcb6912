------------------------ MODULE ExecutionReadiness ------------------------
(***************************************************************************)
(* May an approved generation request be executed?  The answer of          *)
(* execution_readiness.py, beside the check that                           *)
(* ImageGenerationWorkflow.submit makes of the same capabilities before    *)
(* it asks for the approval, while what the providers report changes.      *)
(*                                                                         *)
(* evaluate_execution_readiness keeps no state: it is an operator of the   *)
(* providers, the request and the approval it is given.  Fields that       *)
(* nothing in the program writes (provider_metadata of a request,          *)
(* request_hash, model and expires_at of an approval) have the value that  *)
(* get() returns for them.  ready_to_execute is always false, as no cost   *)
(* is ever known: what counts are the reasons it gives beside the cost.    *)
(***************************************************************************)
EXTENDS Naturals, Sequences

CONSTANTS
    Order,        \* the provider ids in the order of the list that is evaluated
    Models, Ratios,
    Unlisted,     \* a model or a ratio that no provider lists
    None,         \* Python's None
    MaxVariants   \* bound: variants requested or supported

ASSUME OrderAssumption == Order \in Seq(STRING)
ASSUME MaxVariantsAssumption == MaxVariants \in Nat \ {0}
ASSUME NoneAssumption ==
    /\ {None, Unlisted} \cap (Models \cup Ratios) = {} /\ None # Unlisted
    /\ \A i \in DOMAIN Order : Order[i] # None

Providers == {Order[i] : i \in DOMAIN Order}

Capabilities ==
    [available : BOOLEAN, models : SUBSET Models, aspect_ratios : SUBSET Ratios,
     max_variants : 0..MaxVariants, supports_references : BOOLEAN]

Requests ==
    [provider : Providers,
     model : Models \cup {Unlisted, None}, aspect_ratio : Ratios \cup {Unlisted, None},
     variant_count : 1..MaxVariants, references : BOOLEAN, selected_model : {None}]

VARIABLES
    caps,      \* caps[p]: what provider p reports now
    request,   \* the stored generation request
    approval,  \* its approval: the status and what the row holds
    attempted, \* the attempt_status of the request is "attempted"
    changed    \* history: capabilities have changed since the approval was asked for

vars == <<caps, request, approval, attempted, changed>>

NoRequest  == [status |-> "none"]
NoApproval == [status |-> "none"]

----------------------------------------------------------------------------
(* submit *)

Supported(c, r) ==
    /\ c.available
    /\ r.model = None \/ c.models = {} \/ r.model \in c.models
    /\ r.aspect_ratio = None \/ c.aspect_ratios = {} \/ r.aspect_ratio \in c.aspect_ratios
    /\ r.variant_count <= c.max_variants

----------------------------------------------------------------------------
(* evaluate_provider_candidate and evaluate_providers *)

\* Mutant: max_variants is exclusive.
Eligible_BelowLimit(c, r) ==
    /\ c.available
    /\ r.aspect_ratio = None \/ c.aspect_ratios = {} \/ r.aspect_ratio \in c.aspect_ratios
    /\ r.references => c.supports_references
    /\ r.variant_count < c.max_variants
    /\ r.selected_model = None \/ c.models = {} \/ r.selected_model \in c.models

\* Mutant: an unavailable provider is a candidate, too.
Eligible_AnyStatus(c, r) ==
    /\ r.aspect_ratio = None \/ c.aspect_ratios = {} \/ r.aspect_ratio \in c.aspect_ratios
    /\ r.references => c.supports_references
    /\ r.variant_count <= c.max_variants
    /\ r.selected_model = None \/ c.models = {} \/ r.selected_model \in c.models

\* The status of a described provider is "available" exactly if its
\* capabilities say so: both tests are one.
Eligible(c, r) ==
    /\ c.available
    /\ r.aspect_ratio = None \/ c.aspect_ratios = {} \/ r.aspect_ratio \in c.aspect_ratios
    /\ r.references => c.supports_references
    /\ r.variant_count <= c.max_variants
    /\ r.selected_model = None \/ c.models = {} \/ r.selected_model \in c.models

\* The positions of the eligible providers: the list keeps the order.
EligibleProviders == {i \in DOMAIN Order : Eligible(caps[Order[i]], request)}

\* eligible_providers[0], where there is one
FirstEligible ==
    Order[CHOOSE i \in EligibleProviders : \A j \in EligibleProviders : i <= j]

----------------------------------------------------------------------------
(* compute_cost_preview, build_execution_envelope *)

\* No pricing is implemented: the estimate is None with and without providers.
EstimatedTotal == None

EnvelopeProvider == IF EligibleProviders = {} THEN None ELSE FirstEligible

----------------------------------------------------------------------------
(* validate_approval_integrity: the tests in their order, the first to fail *)
(* giving the reason                                                        *)

HashMismatch == approval.request_hash # None /\ approval.request_hash # request

\* Mutant: the last of the eligible providers.
CurrentProvider_Last ==
    IF EligibleProviders = {} THEN None
    ELSE Order[CHOOSE i \in EligibleProviders : \A j \in EligibleProviders : j <= i]

CurrentProvider == IF EligibleProviders = {} THEN None ELSE FirstEligible

ProviderChanged ==
    approval.provider # None /\ CurrentProvider # None /\ approval.provider # CurrentProvider

ModelChanged ==
    /\ approval.model # None /\ request.selected_model # None
    /\ approval.model # request.selected_model

InvalidReasons ==
    CASE approval.status # "approved" -> {"approval_status"}
      [] approval.status = "approved" /\ HashMismatch -> {"hash_changed"}
      [] approval.status = "approved" /\ ~HashMismatch /\ ProviderChanged -> {"provider_changed"}
      [] approval.status = "approved" /\ ~HashMismatch /\ ~ProviderChanged /\ ModelChanged ->
             {"model_changed"}
      [] OTHER -> {}

ApprovalValid == InvalidReasons = {}

----------------------------------------------------------------------------
(* evaluate_execution_readiness *)

BlockingReasons ==
    InvalidReasons
      \cup (IF EligibleProviders = {} THEN {"no_provider"} ELSE {})
      \cup (IF EstimatedTotal = None THEN {"cost_unknown"} ELSE {})

----------------------------------------------------------------------------
(* execute of the stored request, with its approval *)

\* The tests that fail; the first of them raises.
Refusals ==
    (IF approval.status # "approved" \/ approval.provider # request.provider
     THEN {"approval"} ELSE {})
      \cup (IF attempted THEN {"attempted"} ELSE {})
      \cup (IF caps[request.provider].available THEN {} ELSE {"unavailable"})

\* With a known request and approval.  ImageGeneration has its steps; what the
\* evaluation could see of them is that the request counts as attempted.
Execute ==
    /\ approval # NoApproval /\ Refusals = {}
    /\ attempted' = TRUE
    /\ UNCHANGED <<caps, request, approval, changed>>

----------------------------------------------------------------------------
(* What happens around it *)

Init ==
    /\ caps \in [Providers -> Capabilities]
    /\ request = NoRequest /\ approval = NoApproval
    /\ attempted = FALSE /\ changed = FALSE

\* A request is stored; it is blocked, or an approval is asked for whose scope
\* names the provider.
Submit(r) ==
    /\ request = NoRequest
    /\ request' = r
    /\ approval' = IF Supported(caps[r.provider], r)
                   THEN [status |-> "pending", provider |-> r.provider,
                         model |-> None, request_hash |-> None]
                   ELSE NoApproval
    /\ UNCHANGED <<caps, attempted, changed>>

\* Mutant: the row of the decision takes the place of the approval's.
Decide_Replaces(d) ==
    /\ approval.status = "pending"
    /\ approval' = [status |-> d]
    /\ UNCHANGED <<caps, request, attempted, changed>>

Decide(d) ==
    /\ approval.status = "pending"
    /\ approval' = [approval EXCEPT !.status = d]
    /\ UNCHANGED <<caps, request, attempted, changed>>

\* A provider reports something else in one respect.
ChangeCapability(p) ==
    /\ request # NoRequest
    /\ \/ \E x \in BOOLEAN : caps' = [caps EXCEPT ![p].available = x]
       \/ \E x \in SUBSET Models : caps' = [caps EXCEPT ![p].models = x]
       \/ \E x \in SUBSET Ratios : caps' = [caps EXCEPT ![p].aspect_ratios = x]
       \/ \E x \in 0..MaxVariants : caps' = [caps EXCEPT ![p].max_variants = x]
       \/ \E x \in BOOLEAN : caps' = [caps EXCEPT ![p].supports_references = x]
    /\ caps' # caps
    /\ changed' = TRUE
    /\ UNCHANGED <<request, approval, attempted>>

Next ==
    \/ \E r \in Requests : Submit(r)
    \/ \E d \in {"approved", "rejected", "changes_requested"} : Decide(d)
    \/ \E p \in Providers : ChangeCapability(p)
    \/ Execute

Spec == Init /\ [][Next]_vars

----------------------------------------------------------------------------
(* Properties *)

TypeOK ==
    /\ caps \in [Providers -> Capabilities]
    /\ request \in Requests \cup {NoRequest}
    /\ approval = NoApproval \/
       approval \in [status : {"pending", "approved", "rejected", "changes_requested"},
                     provider : Providers, model : {None}, request_hash : {None}]
    /\ attempted \in BOOLEAN /\ changed \in BOOLEAN

\* submit and the readiness evaluation read the same capabilities with separate
\* code and agree: what submit accepts of a provider is eligible there, unless
\* it has reference images, which only the evaluation looks at.
SubmittedIsEligible ==
    request # NoRequest =>
        LET c == caps[request.provider]
        IN  Supported(c, request) /\ (request.references => c.supports_references)
              => Eligible(c, request)

\* The evaluation and execute have separate tests: the one looks at the first
\* eligible provider, the other at the request's own.  Where the evaluation finds
\* nothing in the way but the unknown cost, the envelope names the provider that
\* execute would call, and execute refuses at most because the request has been
\* attempted, which the evaluation does not look at.
UnblockedIsExecutable ==
    approval # NoApproval /\ BlockingReasons \subseteq {"cost_unknown"} =>
        EnvelopeProvider = request.provider /\ Refusals \subseteq {"attempted"}

\* An approval that was granted, of a request and providers that did not change,
\* is called invalid for one reason only: a provider before the request's own in
\* the list is eligible, too, or the request's own takes no reference images.
InvalidOnlyIfPreceded ==
    approval # NoApproval /\ approval.status = "approved" /\ ~changed /\ ~ApprovalValid =>
        /\ InvalidReasons = {"provider_changed"}
        /\ \/ request.references /\ ~caps[request.provider].supports_references
           \/ \E i \in EligibleProviders :
                 \A j \in DOMAIN Order : Order[j] = request.provider => i < j

\* The docstring of validate_approval_integrity: an approval is invalidated if
\* the provider, the model or the request changed after approval.  It does not
\* hold: the first eligible provider counts as the request's.
UnchangedApprovalValid ==
    approval # NoApproval /\ approval.status = "approved" /\ ~changed => ApprovalValid

============================================================================
