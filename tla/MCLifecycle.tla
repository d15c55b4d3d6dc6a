---- MODULE MCLifecycle ----
EXTENDS Lifecycle
MCTransportOption == <<"native", "sse", "phoenix">>
MCReconnectOption == [maxAttempts |-> 5]
====
