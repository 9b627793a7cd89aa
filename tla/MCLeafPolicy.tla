---------------------------- MODULE MCLeafPolicy ----------------------------
(* Host names that tell a string suffix from a label boundary, upper case  *)
(* and a wildcard; addresses inside, beside and of the other family.       *)
EXTENDS LeafPolicy

MCHosts == {<<"a">>, <<"b">>, <<"b", "a">>, <<"b", ".", "a">>, <<"b", ".", "A">>,
            <<"b", "b", ".", "a">>, <<"*", ".", "a">>}

MCDomains == {<<"a">>, <<"b">>, <<"b", "a">>, <<"b", ".", "A">>}

MCAddresses == {[family |-> 4, number |-> 0], [family |-> 4, number |-> 1],
                [family |-> 6, number |-> 1]}

MCNetworks == {[family |-> 4, base |-> 0, size |-> 2], [family |-> 4, base |-> 1, size |-> 1]}

=============================================================================
