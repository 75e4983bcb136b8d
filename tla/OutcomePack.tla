---------------------------- MODULE OutcomePack ----------------------------
(***************************************************************************)
(* The outcome-pack loader (outcome_pack.py): from a YAML file on disk to  *)
(* the policy the four tests are scored under, or OutcomePackError.        *)
(*                                                                         *)
(* A file is what its parsed content offers the loader's checks; the text  *)
(* of titles, snippets and messages is left out.  A key written with no    *)
(* value reads as the text "None" and so counts as filled in, for a        *)
(* version and a title alike.                                              *)
(***************************************************************************)
EXTENDS Integers, FiniteSets

CONSTANTS
    Versions,    \* pack versions a file may carry
    Instruments  \* citation ids a file may define or name

\* What a file may say for a version when it says nothing, and for a value
\* the loader does not know.
Blank == "blank"
Unknown == "unknown"

TestFamilies ==
    {"foreseeable_harm", "target_market_drift", "price_vs_value", "vulnerable_customer"}
SeverityNames == {"low", "medium", "high", "critical"}

\* What a YAML scalar under 'threshold' may be.  A YAML boolean is an int and
\* .nan is a float, so both pass the isinstance check.
ThresholdKinds == {"number", "boolean", "nan", "text", "absent"}
PassesAsNumber == {"number", "boolean", "nan"}

Entries ==
    [family : TestFamilies \cup {Unknown},
     mapping : BOOLEAN,
     threshold : ThresholdKinds,
     citation : Instruments \cup {Blank},
     severity : SeverityNames \cup {Blank, Unknown}]

\* A pack file: whether it is there and parses, its version, the citations it
\* defines, whether each has a title, and its family entries.
IsPackFile(file) ==
    /\ file.state \in {"missing", "garbled", "scalar", "mapping"}
    /\ file.version \in Versions \cup {Blank}
    /\ file.citations \subseteq Instruments
    /\ file.titled \in BOOLEAN
    /\ file.families \subseteq Entries

\* _citations: an instrument block, every member of it titled.
NamesItsInstruments(file) == file.citations # {} /\ file.titled

\* One turn of load_pack's loop over the families block.
EntryLoads(file, entry) ==
    /\ entry.family \in TestFamilies
    /\ entry.mapping
    /\ entry.threshold \in PassesAsNumber
    /\ entry.citation \in file.citations
    /\ entry.severity # Unknown

\* load_pack raises nothing.  An empty file is read as {} and so has no
\* version.
Loads(file) ==
    /\ file.state = "mapping"
    /\ file.version # Blank
    /\ NamesItsInstruments(file)
    /\ file.families # {}
    /\ \A entry \in file.families : EntryLoads(file, entry)

\* The policy load_pack returns; a severity left out is "high".  A family the
\* pack omits has no threshold (a GAP when the engine runs).
Policy(file) ==
    [version |-> file.version,
     thresholds |->
        {[family |-> entry.family,
          threshold |-> entry.threshold,
          severity |-> IF entry.severity = Blank THEN "high" ELSE entry.severity,
          citation |-> entry.citation] : entry \in file.families}]
============================================================================
