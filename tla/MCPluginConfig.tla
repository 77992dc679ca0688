--------------------------- MODULE MCPluginConfig ---------------------------
(***************************************************************************)
(* PluginConfig for TLC: one upstream beside the default one, two keys, a  *)
(* host that passes a legacy configuration or nothing but the secret, and  *)
(* an operator who saves an upstream with its key, or the defaults with    *)
(* the form's key left blank.                                              *)
(***************************************************************************)
EXTENDS PluginConfig, TLC

CONSTANTS default, lan, k1, k2, s1

MCBases == {default, lan}
MCKeys == {k1, k2}
MCSecrets == {s1}

Cfg(base, key, cover, sec) ==
    [base |-> base, key |-> key, cover |-> cover, secret |-> sec]

MCLegacyHost == {Cfg(lan, k1, None, None)}
MCSecretHost == {Cfg(None, None, None, s1)}

MCBodies == {Cfg(lan, k2, "large", None), Cfg(default, None, None, None)}

Symmetry == Permutations(Patches)
=============================================================================
