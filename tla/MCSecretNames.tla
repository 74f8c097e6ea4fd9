--------------------------- MODULE MCSecretNames ----------------------------
(***************************************************************************)
(* All paths of up to three characters.                                    *)
(***************************************************************************)
EXTENDS SecretNames

CONSTANTS MaxLen, v1

MCSmall   == {"a"}
MCCapital == [c \in MCSmall |-> "A"]
MCPrefix  == <<"a">>
MCPaths   == UNION {[1..n -> Char] : n \in 1..MaxLen}
=============================================================================
