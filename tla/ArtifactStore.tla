---------------------------- MODULE ArtifactStore ----------------------------
(***************************************************************************)
(* The artifact store (artifact/store.go, adapters/s3artifact/store.go):   *)
(* content-addressed objects on a file system or in a bucket, and the      *)
(* caches into which callers fetch them.  Calls overlap, are cancelled or  *)
(* die anywhere; files are damaged by nobody's fault but a disk's.         *)
(***************************************************************************)
EXTENDS Naturals, FiniteSets

CONSTANTS
    Contents,   \* contents, each with its digest and key
    Clients,    \* callers of the store, each with its cache
    StoreKinds  \* bound: the adapters, of "local" and "s3"

ASSUME StoreAssumption == StoreKinds \subseteq {"local", "s3"}

VARIABLES
    adapter,    \* the adapter that is configured
    object,     \* the bytes under the key of each content
    cache,      \* the bytes that each client has in its cache
    storeCall   \* the call of each client, or the answer to its last one

storeVars == <<adapter, object, cache, storeCall>>

-----------------------------------------------------------------------------
\* Bytes, compared with the content that belongs there; a file that is being written is
\* "part" of it, and "wrong" may have the right size.
Bytes == {"absent", "part", "whole", "wrong"}

Answers == {"none", "stored", "path", "verified", "refused"}
Answered(how) == [at |-> "idle", answer |-> how]
StoreCalls ==
    [at : {"put", "head", "get", "materialize", "open", "verify"}, of : Contents]
        \cup [at : {"copy"}, of : Contents, to : {"object", "cache"}, temporary : Bytes]
        \cup {Answered(how) : how \in Answers}

StoreTypeOK ==
    /\ adapter \in StoreKinds
    /\ object \in [Contents -> Bytes]
    /\ cache \in [Clients -> [Contents -> Bytes]]
    /\ storeCall \in [Clients -> StoreCalls]

StoreInit ==
    /\ adapter \in StoreKinds
    /\ object = [c \in Contents |-> "absent"]
    /\ cache = [p \in Clients |-> [c \in Contents |-> "absent"]]
    /\ storeCall = [p \in Clients |-> Answered("none")]

-----------------------------------------------------------------------------
\* Mutant of Intact: the size is compared, but not the digest.
Intact_size(bytes) == bytes \in {"whole", "wrong"}

\* Size and digest are those of the descriptor.
Intact(bytes) == bytes = "whole"

Reply(p, how) == storeCall' = [storeCall EXCEPT ![p] = Answered(how)]
Continue(p, call) == storeCall' = [storeCall EXCEPT ![p] = call]
At(p, where) == storeCall[p].at = where
Of(p) == storeCall[p].of

\* A call begins; PutFile with the digest of its file, which is the caller's own.
StoreCallBegins(p) ==
    /\ At(p, "idle")
    /\ \E where \in {"put", "materialize", "verify"}, c \in Contents : Continue(p, [at |-> where, of |-> c])
    /\ UNCHANGED <<adapter, object, cache>>

\* Mutant of BeginCopy: the copy is written at its destination at once.
BeginCopy_inPlace(p, to) ==
    /\ Continue(p, [at |-> "copy", of |-> Of(p), to |-> to, temporary |-> "part"])
    /\ IF to = "object" THEN object' = [object EXCEPT ![Of(p)] = "part"] /\ UNCHANGED cache
                        ELSE cache' = [cache EXCEPT ![p][Of(p)] = "part"] /\ UNCHANGED object

\* A temporary file beside the destination.
BeginCopy(p, to) ==
    /\ Continue(p, [at |-> "copy", of |-> Of(p), to |-> to, temporary |-> "part"])
    /\ UNCHANGED <<object, cache>>

\* PutFile of the file system: what is under the key must be the same, or is written.
PutLocal(p) ==
    /\ adapter = "local" /\ At(p, "put")
    /\ IF object[Of(p)] = "absent"
       THEN BeginCopy(p, "object")
       ELSE /\ Reply(p, IF Intact(object[Of(p)]) THEN "stored" ELSE "refused")
            /\ UNCHANGED <<object, cache>>
    /\ UNCHANGED adapter

\* PutFile of the bucket writes in any case; a request that fails may have taken effect.
PutObject(p) ==
    /\ adapter = "s3" /\ At(p, "put")
    /\ \/ object' = [object EXCEPT ![Of(p)] = "whole"] /\ Continue(p, [at |-> "head", of |-> Of(p)])
       \/ object' \in {object, [object EXCEPT ![Of(p)] = "whole"]} /\ Reply(p, "refused")
    /\ UNCHANGED <<adapter, cache>>

\* It looks at the size and then reads the object back.
HeadObject(p) ==
    /\ At(p, "head")
    /\ \/ object[Of(p)] \in {"whole", "wrong"} /\ Continue(p, [at |-> "get", of |-> Of(p)])
       \/ object[Of(p)] # "whole" /\ Reply(p, "refused")
    /\ UNCHANGED <<adapter, object, cache>>

GetBack(p) ==
    /\ At(p, "get")
    /\ Reply(p, IF Intact(object[Of(p)]) THEN "stored" ELSE "refused")
    /\ UNCHANGED <<adapter, object, cache>>

\* MaterializeReader: what the cache has is read again, and removed when it is not whole.
LookIntoCache(p) ==
    /\ At(p, "materialize")
    /\ LET cached == cache[p][Of(p)] IN
       IF cached # "absent" /\ Intact(cached)
       THEN Reply(p, "path") /\ UNCHANGED cache
       ELSE /\ cache' = [cache EXCEPT ![p][Of(p)] = "absent"]
            /\ Continue(p, [at |-> "open", of |-> Of(p)])
    /\ UNCHANGED <<adapter, object>>

OpenObject(p) ==
    /\ At(p, "open")
    /\ IF object[Of(p)] = "absent" THEN Reply(p, "refused") /\ UNCHANGED <<object, cache>>
                                   ELSE BeginCopy(p, "cache")
    /\ UNCHANGED adapter

\* atomicCopyReader: of a caller's own file, or of the object, whose stream may break off.
CopyBytes(p) ==
    /\ At(p, "copy") /\ storeCall[p].temporary = "part"
    /\ \E read \in IF storeCall[p].to = "object" THEN {"whole"} ELSE {object[Of(p)], "part"} :
          Continue(p, [storeCall[p] EXCEPT !.temporary = IF read = "part" THEN "wrong" ELSE read])
    /\ UNCHANGED <<adapter, object, cache>>

\* What was copied takes its place at once if it is whole; it is removed if it is not.
FinishCopy(p) ==
    /\ At(p, "copy") /\ storeCall[p].temporary # "part"
    /\ IF ~Intact(storeCall[p].temporary)
       THEN Reply(p, "refused") /\ UNCHANGED <<object, cache>>
       ELSE IF storeCall[p].to = "object"
       THEN /\ object' = [object EXCEPT ![Of(p)] = storeCall[p].temporary]
            /\ Reply(p, "stored")
            /\ UNCHANGED cache
       ELSE /\ cache' = [cache EXCEPT ![p][Of(p)] = storeCall[p].temporary]
            /\ Reply(p, "path")
            /\ UNCHANGED object
    /\ UNCHANGED adapter

VerifyObject(p) ==
    /\ At(p, "verify")
    /\ Reply(p, IF object[Of(p)] # "absent" /\ Intact(object[Of(p)]) THEN "verified" ELSE "refused")
    /\ UNCHANGED <<adapter, object, cache>>

\* The caller's context ends, or its process dies and leaves a temporary file to nobody.
StoreCallEnds(p) ==
    /\ ~At(p, "idle")
    /\ Reply(p, "none")
    /\ UNCHANGED <<adapter, object, cache>>

\* A disk damages a file.
Damage ==
    /\ \/ \E c \in Contents : /\ object[c] = "whole"
                              /\ object' = [object EXCEPT ![c] = "wrong"] /\ UNCHANGED cache
       \/ \E p \in Clients, c \in Contents : /\ cache[p][c] = "whole"
                                             /\ cache' = [cache EXCEPT ![p][c] = "wrong"] /\ UNCHANGED object
    /\ UNCHANGED <<adapter, storeCall>>

StoreStep ==
    \/ \E p \in Clients :
          \/ StoreCallBegins(p) \/ PutLocal(p) \/ PutObject(p) \/ HeadObject(p) \/ GetBack(p)
          \/ LookIntoCache(p) \/ OpenObject(p) \/ CopyBytes(p) \/ FinishCopy(p) \/ VerifyObject(p)
          \/ StoreCallEnds(p)
    \/ Damage

-----------------------------------------------------------------------------
\* A file that a client was told of is whole in that moment: under its key after PutFile and
\* Verify, in the cache after MaterializeVerified.
AnswersWhole ==
    \A p \in Clients : storeCall'[p] # storeCall[p] /\ storeCall'[p].at = "idle" =>
        /\ storeCall'[p].answer \in {"stored", "verified"} => object'[Of(p)] = "whole"
        /\ storeCall'[p].answer = "path" => cache'[p][Of(p)] = "whole"

\* No call, nor its end in the middle, leaves anything under a key but what was there or the
\* whole content, and no object is ever taken away.
KeysKept ==
    \A c \in Contents :
        /\ object[c] # "absent" => object'[c] # "absent"
        /\ object'[c] # object[c] => object'[c] = "whole" \/ UNCHANGED storeCall

\* The same of the caches, from which files that are not whole are removed.
CachesKept ==
    \A p \in Clients, c \in Contents :
        cache'[p][c] # cache[p][c] =>
            \/ cache'[p][c] = "whole"
            \/ cache'[p][c] = "absent" /\ cache[p][c] # "whole"
            \/ UNCHANGED storeCall

\* "immutable" objects are what their digest says, whoever writes, reads, dies and repeats
\* (PutFile, MaterializeReader, Verify, atomicCopyReader).
ArtifactsSound == [][AnswersWhole /\ KeysKept /\ CachesKept]_storeVars
=============================================================================
