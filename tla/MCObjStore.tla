----------------------------- MODULE MCObjStore -----------------------------
(***************************************************************************)
(* ObjStore on small instances.                                            *)
(***************************************************************************)
EXTENDS ObjStore, TLC

CONSTANTS p1, p2, u1, u2, u3, d1, r1, r2, w1, w2

PutUploadReaperSymmetry ==
    Permutations({p1, p2}) \union Permutations({u1, u2, u3}) \union Permutations({r1, r2})

Deployment(backend, replicas, replays, slow) ==
    [backend |-> backend, replicas |-> replicas, replays |-> replays, slow |-> slow]

(* One process on the file system; two over the hosted store.              *)
FileSystem == Deployment("fs", {w1}, TRUE, FALSE)
SlowFileSystem == Deployment("fs", {w1}, FALSE, TRUE)
Hosted == Deployment("vercel", {w1, w2}, TRUE, FALSE)

FileSystems == {FileSystem, SlowFileSystem}
BothBackends == {FileSystem, Hosted}
HostedOnly == {Hosted}

=============================================================================
