---------------------------- MODULE SecretNames -----------------------------
(***************************************************************************)
(* How a driver spells a path in the names of its service, and whether two *)
(* paths stay apart.  A path is the sequence of its characters, since the  *)
(* spelling is what this module is about; the calls themselves are atomic  *)
(* here (Drivers has their steps).  No driver turns a name back into a     *)
(* path.                                                                   *)
(***************************************************************************)
EXTENDS Integers, Sequences, FiniteSets, SequencesExt

CONSTANTS Kinds,   \* the drivers looked at
          Small,   \* the small letters, and the digits
          Capital, \* what ToUpper makes of them
          Prefix,  \* AWSSSMDriver.Prefix
          Paths,   \* paths, of the characters below
          Value, None

Marks    == {"/", "_", "-", "."}
Capitals == {Capital[c] : c \in Small}
Letters  == Small \cup Capitals
Char     == Letters \cup Marks
Upper(c) == IF c \in Small THEN Capital[c] ELSE c

ASSUME NamesAssumption ==
    /\ Kinds \subseteq {"gcp", "azure", "doppler", "infisical", "pulumi", "ssm", "trimmed", "raw"}
    /\ Letters \cap Marks = {}
    /\ \A c, d \in Small : Capital[c] = Capital[d] => c = d
    /\ Paths \subseteq Seq(Char) /\ Prefix \in Seq(Char)
    /\ None \notin Value

VARIABLES kind,   \* the driver
          paths,  \* the two paths in use
          secrets, \* what the service keeps, by name
          last    \* what was last written of each secret, as the control plane sees it

vars == <<kind, paths, secrets, last>>

\* strings.TrimLeft(path, "/"), strings.TrimRight(name, "_")
TrimLeft(s, c) ==
    LET i == SelectInSeq(s, LAMBDA d : d # c) IN IF i = 0 THEN <<>> ELSE SubSeq(s, i, Len(s))
TrimRight(s, c) == SubSeq(s, 1, SelectLastInSeq(s, LAMBDA d : d # c))

\* strings.ReplaceAll and regexp's, of single characters: what each becomes.
Spell(s, code) == FlattenSeq([i \in 1..Len(s) |-> code[s[i]]])

\* Mutant: one underscore for a slash.
GcpNameOnce(p) == Spell(TrimLeft(p, "/"), [c \in Char |-> IF c = "/" THEN <<"_">> ELSE <<c>>])

GcpCode == [c \in Char |-> IF c = "/" THEN <<"_", "_">> ELSE <<c>>]
GcpName(p) == Spell(TrimLeft(p, "/"), GcpCode)

AzureCode == [c \in Char |-> IF c = "_" THEN <<"-", "_", "-">>
                               ELSE IF c = "/" THEN <<"-", "-">> ELSE <<c>>]
AzureName(p) == Spell(TrimLeft(p, "/"), AzureCode)

\* What is not kept becomes "_", the rest upper case, and the ends lose their "_".
CapsCode(kept) == [c \in Char |-> IF c \in kept THEN <<Upper(c)>> ELSE <<"_">>]
Caps(p, kept) == TrimRight(TrimLeft(Spell(TrimLeft(p, "/"), CapsCode(kept)), "_"), "_")

DopplerName(p)   == Caps(p, Letters)
InfisicalName(p) == Caps(p, Letters \cup {"_", "-"})

PulumiCode == [c \in Char |-> IF c = "/" THEN <<".">> ELSE <<c>>]
PulumiName(p) == Spell(TrimLeft(p, "/"), PulumiCode)

SsmName(p) ==
    LET clean == <<"/">> \o TrimLeft(p, "/")
    IN  IF Prefix = <<>> THEN clean ELSE (<<"/">> \o Prefix) \o clean

\* The other drivers trim the path (vault.go, conjur.go, akeyless.go, keeper_sm_sdk.go)
\* or take it as it is (aws.go, onepassword.go, bitwarden_sm.go).
Name(k, p) ==
    CASE k = "gcp" -> GcpName(p)             [] k = "azure" -> AzureName(p)
      [] k = "doppler" -> DopplerName(p)     [] k = "infisical" -> InfisicalName(p)
      [] k = "pulumi" -> PulumiName(p)       [] k = "ssm" -> SsmName(p)
      [] k = "trimmed" -> TrimLeft(p, "/")   [] OTHER -> p

(***************************************************************************)
(* The paths a driver keeps apart.                                         *)
(***************************************************************************)
Chars(p) == {p[i] : i \in 1..Len(p)}
Beside(p, c, near) ==
    \E i \in 1..Len(p) - 1 : \/ p[i] = c /\ p[i + 1] \in near
                             \/ p[i + 1] = c /\ p[i] \in near

\* Paths that differ in leading slashes are one secret, except where the path is raw.
KeyOf(k, p) == IF k = "raw" THEN p ELSE TrimLeft(p, "/")

\* gcp: no "_" next to another or to a slash; azure: no "-", although a "_" of the path
\* brings two into the name.  doppler and infisical: no capitals, no end in "/", and
\* nothing that becomes "_" as the slash does.  pulumi: no ".".
KeptApart(k, p) ==
    /\ p # <<>> /\ KeyOf(k, p) # <<>>
    /\ CASE k = "gcp" -> ~Beside(p, "_", {"_", "/"})
         [] k = "azure" -> ~Beside(p, "-", {"-", "/"})
         [] k = "doppler" -> Chars(p) \subseteq Small \cup {"/"} /\ Last(p) # "/"
         [] k = "infisical" -> Chars(p) \subseteq Small \cup {"-", "/"} /\ Last(p) # "/"
         [] k = "pulumi" -> "." \notin Chars(p)
         [] OTHER -> TRUE

Apart  == [k \in Kinds |-> {p \in Paths : KeptApart(k, p)}]
NameOf == [k \in Kinds |-> [p \in Apart[k] |-> Name(k, p)]]

Init ==
    /\ kind \in Kinds
    /\ paths \in {{p, q} : p, q \in Apart[kind]}
    /\ secrets = [n \in {NameOf[kind][p] : p \in paths} |-> None]
    /\ last = [q \in {KeyOf(kind, p) : p \in paths} |-> None]

Became(p, v) == last' = [last EXCEPT ![KeyOf(kind, p)] = v] /\ UNCHANGED <<kind, paths>>

Write(p, v) == secrets' = [secrets EXCEPT ![NameOf[kind][p]] = v] /\ Became(p, v)

Delete(p) == secrets' = [secrets EXCEPT ![NameOf[kind][p]] = None] /\ Became(p, None)

Next == \E p \in paths : Delete(p) \/ \E v \in Value : Write(p, v)

Spec == Init /\ [][Next]_vars

-----------------------------------------------------------------------------
\* Of the paths a driver keeps apart none disturbs the secret of another, and spellings
\* that differ in leading slashes find the same secret: a read of a path returns what
\* was last written of it (gcp.go:168, azure.go:141, doppler.go:131, infisical.go:150,
\* pulumi_esc.go:58).
OwnValue == \A p \in paths : secrets[NameOf[kind][p]] = last[KeyOf(kind, p)]
=============================================================================
