------------------------------ MODULE MCCaches ------------------------------
(***************************************************************************)
(* What the services keep, in one instance: the DefaultCache, and the JSON *)
(* in which objects are stored in it or sent.  A behaviour is one of       *)
(* either, that of its first state.                                        *)
(***************************************************************************)
EXTENDS DefaultCache, TLC

VARIABLES
  part,
  kind, object, changes, doc, loaded, copied, pc

\* Of DefaultCache: a content is its own size in bytes.
MCSizeOf(item) == item.content
MCPrefixes == {Keys}
MCSymmetry == Permutations(Keys)

Codec == INSTANCE Codecs WITH MaxChanges <- 2

codecVars == <<kind, object, changes, doc, loaded, copied, pc>>

MCInit ==
  /\ part \in {"DefaultCache", "Codecs"}
  /\ Init /\ Codec!Init
  /\ part # "Codecs" => kind = "PublishDataRequest"

MCNext ==
  /\ UNCHANGED part
  /\ \/ part = "DefaultCache" /\ Next /\ UNCHANGED codecVars
     \/ part = "Codecs" /\ Codec!Next /\ UNCHANGED vars

MCSpec == MCInit /\ [][MCNext]_<<part, vars, codecVars>>

-----------------------------------------------------------------------------
\* The properties of Codecs: what is cached is read back, the services agree on
\* what a document says, and what a request was given is found in its JSON.
DocumentsAreRead == Codec!DocumentsAreRead
=============================================================================
