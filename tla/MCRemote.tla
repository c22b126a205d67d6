---- MODULE MCRemote ----
EXTENDS RemoteCSEManager
CONSTANTS in, mn, asn
MCRegistrar == [c \in Cse |-> CASE c = in -> None [] c = mn -> in [] c = asn -> mn]
====
