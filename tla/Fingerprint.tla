---------------------------- MODULE Fingerprint -----------------------------
(***************************************************************************)
(* Which alerts belong together: AlertInput.Validate and then              *)
(* AlertInput.NormalizedFingerprint, as IngestAlert calls them.            *)
(*                                                                         *)
(* Both go through the labels, a Go map, in an order that is chosen anew   *)
(* each time.  NormalizedFingerprint writes the labels into a map under    *)
(* their normalised keys, where a later one replaces an earlier one.       *)
(***************************************************************************)
EXTENDS Naturals, FiniteSets

CONSTANTS
    Texts,      \* what the fields of a request may contain, a published fingerprint too
    Blank,      \* the text that is empty or white space only
    Normal,     \* strings.ToLower(strings.TrimSpace(text))
    Oversized,  \* texts too long for their field
    MaxLabels,  \* 50 in the code
    Inputs,     \* of type AlertInput
    Alerts      \* requests

ASSUME FingerprintConstants ==
    /\ Blank \in Texts
    /\ Normal \in [Texts -> Texts]
    /\ \A t \in Texts : Normal[Normal[t]] = Normal[t]
    /\ \A t \in Texts : Normal[t] = Blank <=> t = Blank
    /\ Oversized \subseteq Texts
    /\ MaxLabels \in Nat
    /\ \A in \in Inputs :
          /\ in.restIsValid \in BOOLEAN
          /\ {in.fingerprint, in.service, in.title} \subseteq Texts
          /\ DOMAIN in.labels \subseteq Texts /\ IsFiniteSet(DOMAIN in.labels)
          /\ \A k \in DOMAIN in.labels : in.labels[k] \in Texts

VARIABLES
    input,   \* per alert, its request
    phase,   \* how far IngestAlert is with it
    todo,    \* the keys the current loop has not come to
    seen,    \* normalizedKeys
    labels,  \* normalizedLabels
    result   \* the fingerprint

fingerprintVars == <<input, phase, todo, seen, labels, result>>

NoLabels == [k \in {} |-> Blank]

FingerprintInit ==
    /\ input \in [Alerts -> Inputs]
    /\ phase = [a \in Alerts |-> "fields"]
    /\ todo = [a \in Alerts |-> {}]
    /\ seen = [a \in Alerts |-> {}]
    /\ labels = [a \in Alerts |-> NoLabels]
    /\ result = [a \in Alerts |-> Blank]

LabelKeys(a) == DOMAIN input[a].labels

Refuse(a) ==
    /\ phase' = [phase EXCEPT ![a] = "refused"]
    /\ UNCHANGED <<input, todo, seen, labels, result>>

-----------------------------------------------------------------------------
\* Service, title, fingerprint, the number of labels; restIsValid stands for
\* external_id and the severity.
FieldsAreValid(in) ==
    /\ in.restIsValid
    /\ Blank \notin {in.service, in.title}
    /\ {in.service, in.title, in.fingerprint} \cap Oversized = {}
    /\ Cardinality(DOMAIN in.labels) <= MaxLabels

CheckFields(a) ==
    /\ phase[a] = "fields"
    /\ FieldsAreValid(input[a])
    /\ phase' = [phase EXCEPT ![a] = "validating"]
    /\ todo' = [todo EXCEPT ![a] = LabelKeys(a)]
    /\ UNCHANGED <<input, seen, labels, result>>

RefuseFields(a) == phase[a] = "fields" /\ ~FieldsAreValid(input[a]) /\ Refuse(a)

\* Faulty variant of LabelIsValid: keys are not compared after normalisation.
LabelIsShort(key, value, before) ==
    Normal[key] # Blank /\ {key, value} \cap Oversized = {}

\* Faulty variant of LabelIsValid: lengths are not looked at.
LabelIsNew(key, value, before) ==
    Normal[key] # Blank /\ Normal[key] \notin before

\* before: the normalised keys of the labels the loop has come by.
LabelIsValid(key, value, before) ==
    /\ Normal[key] # Blank
    /\ {key, value} \cap Oversized = {}
    /\ Normal[key] \notin before

CheckLabel(a, key) ==
    /\ phase[a] = "validating"
    /\ key \in todo[a]
    /\ LabelIsValid(key, input[a].labels[key], seen[a])
    /\ seen' = [seen EXCEPT ![a] = @ \cup {Normal[key]}]
    /\ todo' = [todo EXCEPT ![a] = @ \ {key}]
    /\ UNCHANGED <<input, phase, labels, result>>

RefuseLabel(a, key) ==
    /\ phase[a] = "validating"
    /\ key \in todo[a]
    /\ ~LabelIsValid(key, input[a].labels[key], seen[a])
    /\ Refuse(a)

\* Validate returns nil: NormalizedFingerprint begins.
Accept(a) ==
    /\ phase[a] = "validating"
    /\ todo[a] = {}
    /\ phase' = [phase EXCEPT ![a] = "accepted"]
    /\ todo' = [todo EXCEPT ![a] = LabelKeys(a)]
    /\ UNCHANGED <<input, seen, labels, result>>

-----------------------------------------------------------------------------
Entry(key, value) == <<Normal[key], Normal[value]>>

NormalizeLabel(a, key) ==
    LET entry == Entry(key, input[a].labels[key])
    IN  /\ phase[a] = "accepted"
        /\ key \in todo[a]
        /\ labels' = [labels EXCEPT ![a] =
                        [k \in DOMAIN @ \cup {entry[1]} |->
                            IF k = entry[1] THEN entry[2] ELSE @[k]]]
        /\ todo' = [todo EXCEPT ![a] = @ \ {key}]
        /\ UNCHANGED <<input, phase, seen, result>>

\* The hexadecimal digest of what encoding/json makes of service, title and label
\* entries, which it sorts.  It is taken for free of collisions, and is a text like
\* any other: Texts may contain digests.
Digest(service, title, entries) == <<service, title, entries>>

\* The text that is given, or a digest: nothing tells one from the other.
Fingerprint(a) ==
    LET in == input[a]
    IN  IF in.fingerprint # Blank
        THEN Normal[in.fingerprint]
        ELSE Digest(Normal[in.service], Normal[in.title],
                    {<<k, labels[a][k]>> : k \in DOMAIN labels[a]})

Finish(a) ==
    /\ phase[a] = "accepted"
    /\ todo[a] = {}
    /\ result' = [result EXCEPT ![a] = Fingerprint(a)]
    /\ phase' = [phase EXCEPT ![a] = "done"]
    /\ UNCHANGED <<input, todo, seen, labels>>

FingerprintNext ==
    \E a \in Alerts :
        \/ CheckFields(a)
        \/ RefuseFields(a)
        \/ \E key \in LabelKeys(a) : CheckLabel(a, key) \/ RefuseLabel(a, key) \/ NormalizeLabel(a, key)
        \/ Accept(a)
        \/ Finish(a)

FingerprintSpec == FingerprintInit /\ [][FingerprintNext]_fingerprintVars

-----------------------------------------------------------------------------
(***************************************************************************)
(* Properties.                                                             *)
(***************************************************************************)

\* Every variable has its type, and normalised labels have keys of the request.
FingerprintTypeOK ==
    /\ input \in [Alerts -> Inputs]
    /\ phase \in [Alerts -> {"fields", "validating", "accepted", "done", "refused"}]
    /\ \A a \in Alerts :
          /\ todo[a] \subseteq LabelKeys(a)
          /\ seen[a] \subseteq Texts
          /\ DOMAIN labels[a] \subseteq {Normal[k] : k \in LabelKeys(a)}

\* The labels of a request up to case and surrounding space.
Pairs(in) == {<<Normal[k], Normal[in.labels[k]]>> : k \in DOMAIN in.labels}

\* What two requests have to have in common to be about the same problem: the
\* given fingerprint or, without one, service, title and labels, all up to case
\* and surrounding space.
SameProblem(in, other) ==
    /\ Normal[in.fingerprint] = Normal[other.fingerprint]
    /\ in.fingerprint = Blank =>
          /\ Normal[in.service] = Normal[other.service]
          /\ Normal[in.title] = Normal[other.title]
          /\ Pairs(in) = Pairs(other)

\* A request gives, in any case, the fingerprint that is derived from another one;
\* the API and the MCP server show it on the incident.
Quotes(in, other) ==
    /\ other.fingerprint = Blank
    /\ in.fingerprint # Blank
    /\ Normal[in.fingerprint] = Digest(Normal[other.service], Normal[other.title], Pairs(other))

\* Alerts get the same fingerprint exactly if they are about the same problem or one
\* quotes the fingerprint derived from the other, in whatever order the loops come
\* by the labels of each: a repeated alert is never put with another incident by
\* chance.
FingerprintIsStable ==
    \A a, b \in Alerts :
        phase[a] = "done" /\ phase[b] = "done" =>
            (result[a] = result[b] <=>
                \/ SameProblem(input[a], input[b])
                \/ Quotes(input[a], input[b])
                \/ Quotes(input[b], input[a]))

\* The order does not decide what is refused either: of the same request sent
\* twice, never is one accepted and the other refused, and what is accepted has
\* no label without name, too long, or named like another.
RefusalIsStable ==
    /\ FingerprintTypeOK
    /\ \A a, b \in Alerts :
          input[a] = input[b] => ~(phase[a] = "refused" /\ phase[b] \in {"accepted", "done"})
    /\ \A a \in Alerts : phase[a] \in {"accepted", "done"} =>
          /\ Blank \notin LabelKeys(a)
          /\ \A k \in LabelKeys(a) : {k, input[a].labels[k]} \cap Oversized = {}
          /\ Cardinality({Normal[k] : k \in LabelKeys(a)}) = Cardinality(LabelKeys(a))
=============================================================================
