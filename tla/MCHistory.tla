----------------------------- MODULE MCHistory -----------------------------
(* Instances of History for TLC. *)
EXTENDS History, TLC

Symmetry == Permutations(File) \cup Permutations(Content) \cup Permutations(ByteOrder)

\* No table has a byte order of its own, and the project's stays as it is.
OneByteOrder ==
    /\ orders = EmptyMap
    /\ \A t \in Table : \A k \in DOMAIN manifest[t] : manifest[t][k].byte_order = byteOrder

\* One table through a long history, with outputs.
OneTable ==
    /\ OneByteOrder
    /\ batches = EmptyMap
    /\ \E f \in File :
        /\ DOMAIN files \subseteq {f} /\ DOMAIN outs \subseteq StemFiles(f)
        /\ \A t \in Table : \A k \in DOMAIN manifest[t] :
            t = f /\ DOMAIN manifest[t][k].source_blobs = {f}

NoOutputs == writers = {} /\ outs = EmptyMap

\* Several names, each with a short history and few pointers, and no outputs.
ShortHistories ==
    /\ OneByteOrder /\ NoOutputs
    /\ Cardinality(DOMAIN golden) <= 1 /\ Cardinality(DOMAIN head) <= 1
    /\ \A t \in Table : \A k \in DOMAIN manifest[t] :
        k = 1 /\ manifest[t][k].output_blobs = EmptyMap

\* Settings that give a byte order to any table, and one table with a history.
FewSettings ==
    /\ NoOutputs /\ golden = EmptyMap
    /\ Cardinality(DOMAIN orders) <= 2
    /\ Cardinality(ValuesOf(files) \cup blobs) <= 1
    /\ \A t, u \in Table : manifest[t] # <<>> /\ manifest[u] # <<>> => t = u
    /\ \A t \in Table : Len(manifest[t]) <= 1

\* bound: TLC goes on from a state only if it is of one of the three kinds.
LongOrWide == OneTable \/ ShortHistories \/ FewSettings
=============================================================================
