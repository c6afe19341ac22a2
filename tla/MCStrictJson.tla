---------------------------- MODULE MCStrictJson ----------------------------
(* Small documents for the five readers of StrictJson.  The bounds of the  *)
(* closed shapes are those of their largest document, so that it is still  *)
(* accepted and one more name, value or level is over a bound.             *)
EXTENDS StrictJson

CONSTANTS TreeDepth, TreeMembers, TreeValues

ByReader(tree, core, jwks) ==
  [h \in Handlers |-> CASE h = "core" -> core [] h = "jwks" -> jwks [] OTHER -> tree]

MCJwkMembers == {"kid", "kty", "n"}
MCLongNames == {"long"}
MCNames == ByReader({"", "a", "long"}, RootMembers \cup SignatureMembers \cup {"", "long"},
                    MCJwkMembers \cup {"keys", "d"})
MCTexts == ByReader({"a"}, {"a"}, {"", "a", "b", "long"})
MCMaxDepth == ByReader(TreeDepth, 3, 1)
MCMaxMembers == ByReader(TreeMembers, 5, 7)
MCMaxValues == ByReader(TreeValues, 7, 1)
=============================================================================
