------------------------- MODULE MCRepositoryIntake -------------------------
EXTENDS RepositoryIntake

Adapters == INSTANCE ProviderAdapters WITH Missing <- NoSecret

\* A delivery of Forgejo about an issue: both headers name it.
Headers == [h \in {"x-forgejo-delivery", "x-gitea-delivery"} |-> "d1"]

MCDeliveries   == {Adapters!DeliveryId("FORGEJO", Headers)}
MCScopes       == Adapters!WebhookSyncScopes({})
MCScopesOf     == [d \in Deliveries |-> Adapters!WebhookSyncScopes({"issue"})]
MCAccountOf    == [r \in Repositories |-> CHOOSE a \in Accounts : TRUE]
MCRepositoryOf == [d \in Deliveries |-> CHOOSE r \in Repositories : TRUE]
=============================================================================
