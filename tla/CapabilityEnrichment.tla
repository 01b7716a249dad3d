------------------------ MODULE CapabilityEnrichment ------------------------
(***************************************************************************)
(* The versioned local profiles of capabilities/: which of them speak of a *)
(* model, in which order, and what they add to the fields the provider     *)
(* left empty.  A registry is a set of documents with a name, a provider,  *)
(* the day they were verified and a profile for some model ids.            *)
(***************************************************************************)
EXTENDS OptionalValue, Sequences, FiniteSets, SequencesExt

Fields == <<"power", "cost", "latency", "order">>

\* _SOURCE_PRECEDENCE
Precedence == [provider |-> 500, empirical |-> 400, benchmark |-> 350,
               manual |-> 300, fallback |-> 100, unknown |-> 0]

ASSUME NoneIsNoEffort == None \notin STRING

\* AIModel: effort_order_matches_catalog
ModelIsValid(model) ==
    /\ DOMAIN model = {"id", "provider", "selectable", "efforts", "order", "power", "cost",
                       "latency", "sources"}
    /\ model.id \in Int /\ model.efforts \in SUBSET STRING
    /\ model.order # None => /\ model.order \in Seq(STRING) /\ IsInjective(model.order)
                             /\ Range(model.order) = model.efforts

\* effort_order_must_be_explicit_and_unique, at_least_one_routing_value
ProfileIsValid(profile) ==
    /\ \E i \in DOMAIN Fields : profile[Fields[i]] # None
    /\ profile.source \in DOMAIN Precedence
    /\ profile.order # None => /\ profile.order \in Seq(STRING) /\ profile.order # <<>>
                               /\ IsInjective(profile.order)

\* ModelProfileDocument: some model, and a positive expiry if any
DocumentIsValid(doc) ==
    /\ DOMAIN doc.models # {}
    /\ doc.expires # None => doc.expires > 0
    /\ \A id \in DOMAIN doc.models : ProfileIsValid(doc.models[id])

Speaks(doc, provider, id) == doc.provider = provider /\ id \in DOMAIN doc.models

Rank(doc, id) == Precedence[doc.models[id].source]

\* The registry refuses two profiles of one precedence for one model.
RegistryIsUnambiguous(registry) ==
    \A d, e \in registry : \A id \in DOMAIN d.models :
        /\ Speaks(e, d.provider, id)
        /\ Rank(d, id) = Rank(e, id)
        => d = e

\* What ModelProfileRegistry.from_directory accepts.
RegistryIsValid(registry) ==
    /\ registry # {} /\ IsFiniteSet(registry)
    /\ \A doc \in registry : DocumentIsValid(doc)
    /\ RegistryIsUnambiguous(registry)

\* Inclusive of the last day; unknown before it was verified or without expiry.
Freshness(doc, day) ==
    IF day < doc.verified \/ doc.expires = None THEN "unknown"
    ELSE IF day > doc.verified + doc.expires THEN "stale" ELSE "fresh"

Speaking(registry, model) == { d \in registry : Speaks(d, model.provider, model.id) }

\* Mutant: the sort is not reversed.
MatchesRising(registry, model) ==
    CHOOSE matches \in [1 .. Cardinality(Speaking(registry, model)) -> Speaking(registry, model)] :
        \A i, j \in DOMAIN matches :
            i < j => Rank(matches[i], model.id) < Rank(matches[j], model.id)

\* matches: the documents that speak of a model, by falling precedence.
Matches(registry, model) ==
    CHOOSE matches \in [1 .. Cardinality(Speaking(registry, model)) -> Speaking(registry, model)] :
        \A i, j \in DOMAIN matches :
            i < j => Rank(matches[i], model.id) > Rank(matches[j], model.id)

-----------------------------------------------------------------------------
(***************************************************************************)
(* Enrichment.  A model carries its sources: one [field, origin,           *)
(* confidence] for each field that has a value, in the order of the dict   *)
(* the code fills, the provider's own first.                               *)
(***************************************************************************)
ProviderSources(model) ==
    SelectSeq([i \in DOMAIN Fields |-> [field |-> Fields[i], origin |-> "capability",
                                        confidence |-> None]],
              LAMBDA s : model[s.field] # None)

\* A field of a profile that may be taken: it is given, the model has none,
\* and an order names exactly the efforts of the catalogue.
MayFill(model, profile, field) ==
    /\ model[field] = None /\ profile[field] # None
    /\ field = "order" => Range(profile.order) = model.efforts

FilledBy(model, profile) ==
    SelectSeq(Fields, LAMBDA f : MayFill(model, profile, f))

\* One turn of the loop over the matches; a match that is not fresh is passed over.
Apply(model, doc, day) ==
    IF Freshness(doc, day) # "fresh" THEN model
    ELSE LET profile == doc.models[model.id]
             filled  == FilledBy(model, profile)
             source(f) == [field |-> f, origin |-> "profile", confidence |-> profile.confidence]
         IN  [f \in DOMAIN model |->
                 IF f = "sources" THEN model.sources \o [i \in DOMAIN filled |-> source(filled[i])]
                 ELSE IF f \in Range(Fields) /\ MayFill(model, profile, f) THEN profile[f]
                 ELSE model[f]]

\* _enrich_model: the loop over the matches.
Enriched(model, registry, day) ==
    LET matches == Matches(registry, model)
        after[n \in 0 .. Len(matches)] ==
            IF n = 0 THEN [model EXCEPT !.sources = ProviderSources(model)]
            ELSE Apply(after[n - 1], matches[n], day)
    IN  after[Len(matches)]

Enrich(models, registry, day) == { Enriched(m, registry, day) : m \in models }

\* The first of the sources that came from a profile, None if there is none.
FirstProfileSource(model) ==
    LET taken == SelectSeq(model.sources, LAMBDA s : s.origin = "profile")
    IN  IF taken = <<>> THEN None ELSE taken[1]
=============================================================================
