------------------------------ MODULE Envelope ------------------------------
(***************************************************************************)
(* The layer of pkg/events that does not depend on the transport: what     *)
(* Bus.Publish puts in an envelope and which envelopes the callback that   *)
(* Bus.Subscribe registers hands to its handler.  An envelope is its topic *)
(* and its tenant; the id, the timestamp and the payload are opaque.       *)
(***************************************************************************)

CONSTANTS
    Topics,
    Tenants,        \* the tenants, without the absent one
    SystemTenant,
    NoTenant,       \* an empty TenantID
    Malformed,      \* bytes of another publisher that FromJSON refuses
    Subs,           \* the subscriptions
    TopicOf,        \* TopicOf[s]: the topic of s
    NoFilter,       \* a subscription without WithTenantFilter
    FilterOf        \* FilterOf[s]: WithTenantFilter's tenant, or NoFilter

ASSUME EnvelopeAssumption ==
    /\ SystemTenant \in Tenants /\ NoTenant \notin Tenants
    /\ Malformed \notin Tenants \cup {NoTenant}
    /\ TopicOf \in [Subs -> Topics]
    /\ NoFilter \notin Tenants \cup {NoTenant, Malformed}
    /\ FilterOf \in [Subs -> Tenants \cup {NoTenant, NoFilter}]

\* What travels: the bytes of an envelope, or of no envelope.
Messages == [topic: Topics, tenant: Tenants \cup {NoTenant, Malformed}]

\* Faulty: an empty tenant is left empty.
FinalisedAsIs(topic, tenant) == [topic |-> topic, tenant |-> tenant]

\* EnsureDefaults: an empty tenant is the system's.
Finalised(topic, tenant) ==
    [topic |-> topic,
     tenant |-> IF tenant = NoTenant THEN SystemTenant ELSE tenant]

\* EnsureDefaults: an empty correlation begins a chain of its own.
Correlated(correlation, fresh) ==
    IF correlation = 0 THEN fresh ELSE correlation

\* Faulty: the tenant filter is not applied.
HandlesAnyTenant(s, m) == m.tenant # Malformed

\* Whether the callback calls the handler of s with m.  A filter for the empty
\* tenant is a filter: it lets only envelopes without a tenant through.
Handles(s, m) ==
    /\ m.tenant # Malformed
    /\ FilterOf[s] \in {NoFilter, m.tenant}

=============================================================================
