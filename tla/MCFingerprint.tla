--------------------------- MODULE MCFingerprint ----------------------------
(***************************************************************************)
(* A finite instance of Fingerprint.                                       *)
(***************************************************************************)
EXTENDS Fingerprint, TLC

CONSTANTS cpu, CPU, disk, long, HEX

\* The fingerprint derived from Request(Blank, CPU, cpu :> disk) and its like.
hex == Digest(cpu, cpu, {<<cpu, disk>>})

MCTexts == {Blank, cpu, CPU, disk, long, hex, HEX}

MCNormal == (Blank :> Blank) @@ (cpu :> cpu) @@ (CPU :> cpu) @@ (disk :> disk) @@ (long :> long)
                @@ (hex :> hex) @@ (HEX :> hex)

LabelMaps == UNION {[keys -> {cpu, CPU, disk}] : keys \in SUBSET {cpu, CPU, disk}}

BadLabelMaps == {Blank :> cpu, cpu :> long, cpu :> Blank, (cpu :> cpu) @@ (long :> cpu),
                 (Blank :> cpu) @@ (disk :> cpu),
                 [k \in {Blank, cpu, CPU, disk} |-> cpu]}

Request(fingerprint, service, map) ==
    [fingerprint |-> fingerprint, service |-> service, title |-> cpu,
     restIsValid |-> TRUE, labels |-> map]

MCInputs ==
    {Request(Blank, CPU, map) : map \in LabelMaps \cup BadLabelMaps}
        \cup {Request(f, s, cpu :> disk) : f \in {cpu, CPU, long, hex, HEX, Blank}, s \in {Blank, cpu, disk}}
        \cup {[Request(Blank, CPU, cpu :> cpu) EXCEPT !.restIsValid = FALSE]}
=============================================================================
