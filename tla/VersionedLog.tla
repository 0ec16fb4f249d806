---------------------------- MODULE VersionedLog ----------------------------
(***************************************************************************)
(* What the ETag promises a client (internal/postgres/tx.go, read_tx.go,   *)
(* internal/httpx/etag.go): the log goes through a sequence of documents,  *)
(* one per version, and whatever a device holds under a tag is exactly the *)
(* document of that version as that emitter renders it.  A device may hold *)
(* an old document; it never holds a document under a tag that is not its  *)
(* own.                                                                    *)
(***************************************************************************)
EXTENDS Integers, Sequences

CONSTANTS Devices, Emitters, Docs, NoCache, NoTag

VARIABLES
    history,    \* history[v + 1] is the document of version v
    cache       \* what each device holds, with the tag it was sent under

\* tagFor: a log nothing has written to has no tag.
TagFor(emitter, version) == IF version < 1 THEN NoTag ELSE <<emitter, version>>

Rendered(emitter, version, document) ==
    [tag |-> TagFor(emitter, version), emitter |-> emitter, doc |-> document]

Init ==
    /\ Len(history) = 1 /\ history[1] \in Docs
    /\ cache = [d \in Devices |-> NoCache]

Publish ==
    /\ history'[Len(history')] \in Docs
    /\ history' = Append(history, history'[Len(history')])
    /\ UNCHANGED cache

Refresh(d) ==
    /\ \E version \in 0 .. Len(history) - 1, emitter \in Emitters :
          cache' = [cache EXCEPT ![d] = Rendered(emitter, version, history[version + 1])]
    /\ UNCHANGED history

Next == Publish \/ \E d \in Devices : Refresh(d)

Spec == Init /\ [][Next]_<<history, cache>>
=============================================================================
