--------------------- MODULE ExecutionReadiness_proofs ---------------------
(***************************************************************************)
(* For any list of providers and any capabilities: types; that the         *)
(* evaluation accepts what submit accepts; that where it finds nothing but *)
(* the cost in the way, execute can only object that the request was       *)
(* attempted, because the first eligible provider is then the approved     *)
(* one, and an approval is for the request's own provider; and that, as    *)
(* long as nothing changes, only the order of the providers can invalidate *)
(* a granted approval.                                                     *)
(***************************************************************************)
EXTENDS ExecutionReadiness, WellFoundedInduction, TLAPS

\* What is known of the approval alone: there is none, or its scope names a
\* provider of the list.
ApprovalNamesProvider ==
    approval = NoApproval \/
    approval \in [status : {"pending", "approved", "rejected", "changes_requested"},
                  provider : Providers, model : {None}, request_hash : {None}]

LEMMA ProvidersAreNotNone == None \notin Providers
  BY NoneAssumption DEF Providers

\* An approval that is not there has another status than one that is pending.
LEMMA PendingIsAnApproval ==
  ASSUME ApprovalNamesProvider, approval.status = "pending"
  PROVE  approval \in [status : {"pending", "approved", "rejected", "changes_requested"},
                       provider : Providers, model : {None}, request_hash : {None}]
  BY DEF ApprovalNamesProvider, NoApproval

\* The variables keep their types (submit, the decision and the registry).
THEOREM TypeCorrect == Spec => []TypeOK
<1>1. Init => TypeOK
  BY DEF Init, TypeOK, NoApproval, NoRequest
<1>2. TypeOK /\ [Next]_vars => TypeOK'
  <2> SUFFICES ASSUME TypeOK, [Next]_vars
               PROVE  TypeOK'
    OBVIOUS
  <2>1. ASSUME NEW r \in Requests, Submit(r)
        PROVE  TypeOK'
    <3>1. r.provider \in Providers
      BY <2>1 DEF Requests
    <3>2. approval' = NoApproval \/
          approval' = [status |-> "pending", provider |-> r.provider,
                       model |-> None, request_hash |-> None]
      BY <2>1 DEF Submit
    <3>3. request' \in Requests /\ UNCHANGED <<caps, attempted, changed>>
      BY <2>1 DEF Submit
    <3> QED
      BY <3>1, <3>2, <3>3 DEF TypeOK
  <2>2. ASSUME NEW d \in {"approved", "rejected", "changes_requested"}, Decide(d)
        PROVE  TypeOK'
    <3>1. approval \in [status : {"pending", "approved", "rejected", "changes_requested"},
                        provider : Providers, model : {None}, request_hash : {None}]
      BY <2>2, PendingIsAnApproval DEF Decide, TypeOK, ApprovalNamesProvider
    <3>2. approval' = [approval EXCEPT !.status = d]
      BY <2>2 DEF Decide
    <3>3. UNCHANGED <<caps, request, attempted, changed>>
      BY <2>2 DEF Decide
    <3> QED
      BY <3>1, <3>2, <3>3 DEF TypeOK
  <2>3. ASSUME NEW p \in Providers, ChangeCapability(p)
        PROVE  TypeOK'
    <3>1. caps \in [Providers -> Capabilities]
      BY DEF TypeOK
    <3>2. \A x \in BOOLEAN : [caps EXCEPT ![p].available = x] \in [Providers -> Capabilities]
      BY <3>1 DEF Capabilities
    <3>3. \A x \in SUBSET Models :
             [caps EXCEPT ![p].models = x] \in [Providers -> Capabilities]
      BY <3>1 DEF Capabilities
    <3>4. \A x \in SUBSET Ratios :
             [caps EXCEPT ![p].aspect_ratios = x] \in [Providers -> Capabilities]
      BY <3>1 DEF Capabilities
    <3>5. \A x \in 0..MaxVariants :
             [caps EXCEPT ![p].max_variants = x] \in [Providers -> Capabilities]
      BY <3>1 DEF Capabilities
    <3>6. \A x \in BOOLEAN :
             [caps EXCEPT ![p].supports_references = x] \in [Providers -> Capabilities]
      BY <3>1 DEF Capabilities
    <3>7. caps' \in [Providers -> Capabilities]
      BY <2>3, <3>2, <3>3, <3>4, <3>5, <3>6 DEF ChangeCapability
    <3>8. changed' = TRUE /\ UNCHANGED <<request, approval, attempted>>
      BY <2>3 DEF ChangeCapability
    <3> QED
      BY <3>7, <3>8 DEF TypeOK
  <2>4. CASE Execute
    BY <2>4 DEF Execute, TypeOK
  <2>5. CASE UNCHANGED vars
    BY <2>5 DEF TypeOK, vars
  <2> QED
    BY <2>1, <2>2, <2>3, <2>4, <2>5 DEF Next
<1> QED
  BY <1>1, <1>2, PTL DEF Spec

LEMMA AcceptedIsEligible == TypeOK => SubmittedIsEligible
<1> SUFFICES ASSUME TypeOK, request # NoRequest, Supported(caps[request.provider], request),
                    request.references => caps[request.provider].supports_references
             PROVE  Eligible(caps[request.provider], request)
  BY DEF SubmittedIsEligible
<1>1. request.selected_model = None
  BY DEF TypeOK, Requests
<1> QED
  BY <1>1 DEF Supported, Eligible

\* What the check of submit accepts of a provider, the evaluation finds eligible,
\* whatever the provider has come to report (but for reference images, which
\* submit does not look at): two functions that must not drift apart.
THEOREM TwoChecksAgree == Spec => []SubmittedIsEligible
  BY AcceptedIsEligible, TypeCorrect, PTL

----------------------------------------------------------------------------
(* The first eligible provider *)

LEMMA SmallestPosition ==
  ASSUME NEW T, T \subseteq Nat, T # {}
  PROVE  \E i \in T : \A j \in T : i <= j
<1>1. \E i \in T : \A j \in T : ~ (<<j, i>> \in OpToRel(<, Nat))
  BY WFMin, NatLessThanWellFounded, Zenon
<1>2. PICK i \in T : \A j \in T : ~ (<<j, i>> \in OpToRel(<, Nat))
  BY <1>1
<1>3. \A j \in T : ~ (j < i)
  BY <1>2 DEF OpToRel
<1> QED
  BY <1>3

\* The first eligible provider is an eligible one, if there are any.
LEMMA FirstIsEligible ==
  ASSUME EligibleProviders # {}
  PROVE  FirstEligible \in Providers /\ Eligible(caps[FirstEligible], request)
<1>1. EligibleProviders \subseteq Nat
  BY OrderAssumption DEF EligibleProviders
<1>2. \E i \in EligibleProviders : \A j \in EligibleProviders : i <= j
  BY <1>1, SmallestPosition
<1> DEFINE first == CHOOSE i \in EligibleProviders : \A j \in EligibleProviders : i <= j
<1>3. first \in EligibleProviders
  BY <1>2
<1>4. FirstEligible = Order[first]
  BY DEF FirstEligible
<1>5. first \in DOMAIN Order /\ Eligible(caps[Order[first]], request)
  BY <1>3 DEF EligibleProviders
<1> QED
  BY <1>4, <1>5 DEF Providers

----------------------------------------------------------------------------
(* Readiness and execute *)

\* An approval is for the provider of the stored request.
ScopeOfRequest ==
    approval # NoApproval => request # NoRequest /\ approval.provider = request.provider

LEMMA ScopeInvariant == Spec => []ScopeOfRequest
<1>1. Init => ScopeOfRequest
  BY DEF Init, ScopeOfRequest
<1>2. TypeOK /\ ScopeOfRequest /\ [Next]_vars => ScopeOfRequest'
  <2> SUFFICES ASSUME TypeOK, ScopeOfRequest, [Next]_vars
               PROVE  ScopeOfRequest'
    OBVIOUS
  <2>1. ASSUME NEW r \in Requests, Submit(r)
        PROVE  ScopeOfRequest'
    <3>1. request' = r /\ r # NoRequest
      BY <2>1 DEF Submit, Requests, NoRequest
    <3>2. approval' = NoApproval \/ approval'.provider = r.provider
      BY <2>1 DEF Submit
    <3> QED
      BY <3>1, <3>2 DEF ScopeOfRequest, NoApproval
  <2>2. ASSUME NEW d \in {"approved", "rejected", "changes_requested"}, Decide(d)
        PROVE  ScopeOfRequest'
    <3>1. approval \in [status : {"pending", "approved", "rejected", "changes_requested"},
                        provider : Providers, model : {None}, request_hash : {None}]
      BY <2>2, PendingIsAnApproval DEF Decide, TypeOK, ApprovalNamesProvider
    <3>2. approval # NoApproval
      BY <2>2 DEF Decide, NoApproval
    <3>3. approval'.provider = approval.provider /\ request' = request
      BY <2>2, <3>1 DEF Decide
    <3> QED
      BY <3>2, <3>3 DEF ScopeOfRequest
  <2>3. ASSUME NEW p \in Providers, ChangeCapability(p)
        PROVE  ScopeOfRequest'
    BY <2>3 DEF ChangeCapability, ScopeOfRequest, NoApproval, NoRequest
  <2>4. CASE Execute
    BY <2>4 DEF Execute, ScopeOfRequest, NoApproval, NoRequest
  <2>5. CASE UNCHANGED vars
    BY <2>5 DEF vars, ScopeOfRequest, NoApproval, NoRequest
  <2> QED
    BY <2>1, <2>2, <2>3, <2>4, <2>5 DEF Next
<1> QED
  BY <1>1, <1>2, TypeCorrect, PTL DEF Spec

\* Where nothing but the unknown cost stands in the way, the envelope names the
\* provider that execute would call, and execute could refuse only because the
\* request was attempted (evaluate_execution_readiness, and the tests of execute).
THEOREM UnblockedExecutes == Spec => []UnblockedIsExecutable
<1>1. TypeOK /\ ScopeOfRequest => UnblockedIsExecutable
  <2> SUFFICES ASSUME TypeOK, ScopeOfRequest, approval # NoApproval,
                      BlockingReasons \subseteq {"cost_unknown"}
               PROVE  EnvelopeProvider = request.provider /\ Refusals \subseteq {"attempted"}
    BY DEF UnblockedIsExecutable
  <2>1. EligibleProviders # {}
    <3>1. "no_provider" \notin BlockingReasons
      OBVIOUS
    <3> QED
      BY <3>1 DEF BlockingReasons
  <2>2. InvalidReasons = {}
    <3>1. InvalidReasons \subseteq {"cost_unknown"}
      BY DEF BlockingReasons
    <3>2. "cost_unknown" \notin InvalidReasons
      BY DEF InvalidReasons
    <3> QED
      BY <3>1, <3>2
  <2>3. approval.status = "approved"
    BY <2>2 DEF InvalidReasons
  <2>4. ~HashMismatch
    BY <2>2, <2>3 DEF InvalidReasons
  <2>5. ~ProviderChanged
    BY <2>2, <2>3, <2>4 DEF InvalidReasons
  <2>6. FirstEligible \in Providers /\ Eligible(caps[FirstEligible], request)
    BY <2>1, FirstIsEligible
  <2>7. approval.provider \in Providers /\ approval.provider = request.provider
    BY DEF TypeOK, ScopeOfRequest
  <2>8. FirstEligible = request.provider
    BY <2>1, <2>5, <2>6, <2>7, ProvidersAreNotNone DEF ProviderChanged, CurrentProvider
  <2>9. caps[request.provider].available
    BY <2>6, <2>8 DEF Eligible
  <2> QED
    BY <2>1, <2>3, <2>7, <2>8, <2>9 DEF EnvelopeProvider, Refusals
<1> QED
  BY <1>1, TypeCorrect, ScopeInvariant, PTL

----------------------------------------------------------------------------
(* What calls a granted approval invalid *)

\* Until a capability changes, the provider is the one that submit accepted.
StillSupported ==
    approval # NoApproval /\ ~changed => Supported(caps[request.provider], request)

LEMMA SupportInvariant == Spec => []StillSupported
<1>1. Init => StillSupported
  BY DEF Init, StillSupported
<1>2. TypeOK /\ ScopeOfRequest /\ StillSupported /\ [Next]_vars => StillSupported'
  <2> SUFFICES ASSUME TypeOK, ScopeOfRequest, StillSupported, [Next]_vars
               PROVE  StillSupported'
    OBVIOUS
  <2>1. ASSUME NEW r \in Requests, Submit(r)
        PROVE  StillSupported'
    <3>1. /\ request' = r /\ caps' = caps
          /\ approval' # NoApproval => Supported(caps[r.provider], r)
      BY <2>1 DEF Submit
    <3> QED
      BY <3>1 DEF StillSupported, NoApproval, Supported
  <2>2. ASSUME NEW d \in {"approved", "rejected", "changes_requested"}, Decide(d)
        PROVE  StillSupported'
    <3>1. approval # NoApproval
      BY <2>2 DEF Decide, NoApproval
    <3>2. UNCHANGED <<caps, request, changed>>
      BY <2>2 DEF Decide
    <3> QED
      BY <3>1, <3>2 DEF StillSupported, Supported
  <2>3. ASSUME NEW p \in Providers, ChangeCapability(p)
        PROVE  StillSupported'
    BY <2>3 DEF ChangeCapability, StillSupported
  <2>4. CASE Execute
    BY <2>4 DEF Execute, StillSupported, NoApproval, Supported
  <2>5. CASE UNCHANGED vars
    BY <2>5 DEF vars, StillSupported, NoApproval, Supported
  <2> QED
    BY <2>1, <2>2, <2>3, <2>4, <2>5 DEF Next
<1> QED
  BY <1>1, <1>2, TypeCorrect, ScopeInvariant, PTL DEF Spec

\* What is left of the docstring of validate_approval_integrity: where nothing has
\* changed, only the order of the providers can invalidate an approval.
THEOREM OnlyTheOrderInvalidates == Spec => []InvalidOnlyIfPreceded
<1>1. TypeOK /\ ScopeOfRequest /\ StillSupported => InvalidOnlyIfPreceded
  <2> SUFFICES ASSUME TypeOK, ScopeOfRequest, StillSupported, approval # NoApproval,
                      approval.status = "approved", ~changed, ~ApprovalValid
               PROVE  /\ InvalidReasons = {"provider_changed"}
                      /\ \/ request.references /\ ~caps[request.provider].supports_references
                         \/ \E i \in EligibleProviders :
                               \A j \in DOMAIN Order : Order[j] = request.provider => i < j
    BY DEF InvalidOnlyIfPreceded
  <2>1. approval.provider = request.provider /\ approval.model = None
        /\ approval.request_hash = None
    BY DEF TypeOK, ScopeOfRequest
  <2>2. ~HashMismatch /\ ~ModelChanged
    BY <2>1 DEF HashMismatch, ModelChanged
  <2>3. ProviderChanged /\ InvalidReasons = {"provider_changed"}
    BY <2>2 DEF ApprovalValid, InvalidReasons
  <2>4. CurrentProvider # None /\ CurrentProvider # request.provider
    BY <2>1, <2>3 DEF ProviderChanged
  <2>5. EligibleProviders # {} /\ EligibleProviders \subseteq Nat
    BY <2>4, OrderAssumption DEF CurrentProvider, EligibleProviders
  <2> DEFINE first == CHOOSE i \in EligibleProviders : \A j \in EligibleProviders : i <= j
  <2>6. first \in EligibleProviders /\ \A j \in EligibleProviders : first <= j
    BY <2>5, SmallestPosition
  <2>7. Order[first] # request.provider
    BY <2>4, <2>5 DEF CurrentProvider, FirstEligible
  <2> HIDE DEF first
  <2>8. ASSUME request.references => caps[request.provider].supports_references,
               NEW j \in DOMAIN Order, Order[j] = request.provider
        PROVE  first < j
    <3>1. Supported(caps[request.provider], request)
      BY DEF StillSupported
    <3>2. Eligible(caps[request.provider], request)
      BY <2>8, <3>1, AcceptedIsEligible
      DEF SubmittedIsEligible, ScopeOfRequest
    <3>3. j \in EligibleProviders
      BY <2>8, <3>2 DEF EligibleProviders
    <3>4. first <= j /\ first # j /\ first \in Nat /\ j \in Nat
      BY <2>5, <2>6, <2>7, <2>8, <3>3
    <3> QED
      BY <3>4
  <2> QED
    BY <2>3, <2>6, <2>8
<1> QED
  BY <1>1, TypeCorrect, ScopeInvariant, SupportInvariant, PTL

============================================================================
