-------------------------- MODULE PredicateRegistry --------------------------
(***************************************************************************)
(* The predicate/policy registry, the layer above the base firewall: the   *)
(* authority floor of an assertion, its default freshness, the retention   *)
(* ceiling on a caller's finite freshness claim, and uniqueness.           *)
(***************************************************************************)
EXTENDS FactFold

CONSTANTS
  Policy,           \* Shapes -> PredicatePolicy; not registered: no policy
  VolatileCeiling,  \* VOLATILE_RETENTION_CEILING_MS
  RegistryMaxTtl    \* PredicateRegistry::max_ttl

\* A retention ceiling is its ceiling_ms: a duration, or NoTime for no cap.
Unset == -2

PredicatePolicy ==
  [ registered : BOOLEAN, authority_floor : Levels, default_ttl : Ttl,
    volatile : BOOLEAN, max_ttl : OptTime \cup {Unset} ]

ASSUME PolicyAssumption ==
  /\ Policy \in [Shapes -> PredicatePolicy]
  /\ VolatileCeiling \in Nat /\ RegistryMaxTtl \in OptTime
  /\ \A s \in UniqueShapes : Policy[s].registered

NonNegative(n) == IF n < 0 THEN 0 ELSE n

\* bounded_ttl_ms: the finite freshness a ttl claims, NoTime if none.
BoundedTtl(e) ==
  CASE e.ttl.kind = "Never" -> NoTime
    [] e.ttl.kind = "Duration" -> e.ttl.millis
    [] e.ttl.kind = "ExpiresAt" ->
         NonNegative(e.ttl.millis - FirstTime(e.valid_from, e.recorded_at))

\* bounded_valid_to_ms: the same for the asserted end of validity.
BoundedValidTo(e) ==
  IF e.valid_to = NoTime THEN NoTime
  ELSE NonNegative(e.valid_to - FreshnessAnchor(e))

\* The ceiling of a deliberate policy: an override, else volatility.
DeliberateCeiling(shape) ==
  IF ~Policy[shape].registered THEN Unset
  ELSE IF Policy[shape].max_ttl # Unset THEN Policy[shape].max_ttl
  ELSE IF Policy[shape].volatile THEN VolatileCeiling ELSE Unset

EffectiveCeiling(shape) ==
  IF DeliberateCeiling(shape) = Unset THEN RegistryMaxTtl ELSE DeliberateCeiling(shape)

Within(reach, ceiling) == reach = NoTime \/ ceiling \in {NoTime, Unset} \/ reach <= ceiling

\* The retention ceiling is not exceeded: only a deliberate policy bounds a
\* validity window, every policy bounds a ttl.
WithinRetention(e) ==
  /\ Within(BoundedTtl(e), EffectiveCeiling(e.shape))
  /\ Within(BoundedValidTo(e), DeliberateCeiling(e.shape))

ClearsFloor(shape, level) ==
  Policy[shape].registered => level >= Policy[shape].authority_floor

\* apply_policy_defaults: Never on an assertion means unset.
WithPolicyDefaults(e) ==
  IF e.kind = "Asserted" /\ e.ttl = NeverTtl /\ Policy[e.shape].registered
  THEN [e EXCEPT !.ttl = Policy[e.shape].default_ttl] ELSE e

\* Mutant: only an active belief blocks a second one, a contested one does not.
NoOtherBeliefActive(p, e, now) ==
  e.shape \in UniqueShapes =>
    \A f \in UnexpiredOf(p, e.shape, now) : p[f].lifecycle = "Active" => f = e.fact

\* No other unexpired belief of a unique subject+predicate.
NoOtherBelief(p, e, now) ==
  e.shape \in UniqueShapes => UnexpiredOf(p, e.shape, now) \subseteq {e.fact}

EnforcePolicy(p, e, now) ==
  e.kind = "Asserted" => /\ ClearsFloor(e.shape, e.level)
                         /\ WithinRetention(e)
                         /\ NoOtherBelief(p, e, now)
=============================================================================
