--------------------------- MODULE DidResolution ----------------------------
(***************************************************************************)
(* A verifier process that resolves DIDs: MultiMethodResolver over the     *)
(* resolvers of did:web and did:sifr, which keep every document they have  *)
(* once read, and of did:key, which keeps nothing.                         *)
(*                                                                         *)
(* Where a document is published (a host, the directory of did:sifr) is    *)
(* external: anything may be put there, at any time.                       *)
(***************************************************************************)
EXTENDS DidDocuments

CONSTANTS
  Dids,       \* the DIDs
  MethodOf,   \* the method of each DID: "web", "sifr", "key", or one that no
              \* resolver is registered for
  Documents,  \* raw documents that may be published, per DID
  NoDoc       \* nothing there, no answer, no JSON; nothing cached

ASSUME ResolutionAssumption ==
  /\ DidOf \in [Kids -> Dids]
  /\ MethodOf \in [Dids -> {"web", "sifr", "key", "none"}]
  /\ DOMAIN Documents = Dids
  /\ \A did \in Dids : \A raw \in Documents[did] : IsRaw(raw)
  /\ NoDoc \notin UNION {Documents[did] : did \in Dids}

VARIABLES
  published, \* what is found at the place of each DID
  order,     \* the order of the relationships in this process
  cache,     \* _cache of the resolvers of did:web and did:sifr
  since      \* history: kid and key of all documents published for their DID
             \* since the verifier started, however they are parsed

didVars == <<published, order, cache, since>>

\* The keys a document gives to kids of its DID, in any order.
KeysIn(did, raw) ==
  IF raw = NoDoc \/ raw.id # did THEN {}
  ELSE {pair \in {<<kid, KeyFor(Parse(raw, o), kid)>> : kid \in Kids, o \in Orders} : pair[2] # NoKey}

KeysPublished == UNION {KeysIn(did, published[did]) : did \in Dids}

EmptyCache == [did \in Dids |-> NoDoc]

DidInit ==
  /\ published = [did \in Dids |-> NoDoc]
  /\ order \in Orders
  /\ cache = EmptyCache
  /\ since = {}

Publish(did, raw) ==
  /\ published' = [published EXCEPT ![did] = raw]
  /\ since' = since \cup KeysIn(did, raw)
  /\ UNCHANGED <<order, cache>>

\* Mutation: the cache outlives the process.
RestartWithCache ==
  /\ order' \in Orders
  /\ since' = KeysPublished
  /\ UNCHANGED <<published, cache>>

\* The verifier starts again: empty caches, another hash seed.
RestartResolver ==
  /\ order' \in Orders
  /\ cache' = EmptyCache
  /\ since' = KeysPublished
  /\ UNCHANGED published

-----------------------------------------------------------------------------
\* Mutation: the id of the document is not compared.
FetchedAnyId(did) ==
  IF published[did] = NoDoc THEN Failed ELSE Parse(published[did], order)

\* What a fetch ends with: a document for the DID that was asked for, or an
\* exception.
Fetched(did) ==
  IF published[did] = NoDoc \/ published[did].id # did THEN Failed
  ELSE Parse(published[did], order)

\* resolve_document as the caller sees it.
DocumentOf(did) ==
  CASE MethodOf[did] = "key"  -> DidKeyDocument(did)
    [] MethodOf[did] = "none" -> Failed
    [] OTHER                  -> IF cache[did] # NoDoc THEN cache[did] ELSE Fetched(did)

\* DidResolver.resolve
ResolvedKey(kid) == KeyFor(DocumentOf(DidOf[kid]), kid)

\* What resolve_document leaves behind: only a document that was fetched,
\* parsed and names its DID gets into the cache, and it stays.
ResolveDocument(did) ==
  LET doc == DocumentOf(did) IN
  /\ cache' = IF MethodOf[did] \in {"web", "sifr"} /\ doc.ok
              THEN [cache EXCEPT ![did] = doc] ELSE cache
  /\ UNCHANGED <<published, order, since>>

-----------------------------------------------------------------------------
DidTypeOK ==
  /\ \A did \in Dids : published[did] \in Documents[did] \cup {NoDoc}
  /\ order \in Orders
  /\ \A did \in Dids : cache[did] # NoDoc => cache[did].ok /\ cache[did].id = did
  /\ \A pair \in since : pair[1] \in Kids

\* The hash seed of a process is not supposed to decide what a document says:
\* a document whose relationships are independent means the same to all
\* processes.  (A reference to a method that another relationship embeds, or
\* two different methods embedded under one id, do depend on the seed.)
SeedIrrelevant ==
  \A did \in Dids : published[did] # NoDoc /\ SelfContained(published[did]) =>
    \A o1, o2 \in Orders :
      LET a == Parse(published[did], o1) b == Parse(published[did], o2) IN
        a.ok = b.ok /\ (a.ok => Meaning(a) = Meaning(b))
=============================================================================
