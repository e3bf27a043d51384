------------------------------- MODULE MCAes -------------------------------
EXTENDS Aes

(* Thirty-two characters from sixteen bytes, with this letter for ten.     *)
Typed(bytes, a) ==
    [k \in 1 .. 32 |->
       LET b == bytes[(k + 1) \div 2]
           d == IF k % 2 = 1 THEN b \div 16 ELSE b % 16
       IN  IF d < 10 THEN 48 + d ELSE a + d - 10]
Text(msg, cipherkey, a, enc) ==
    [msg_ascii |-> Typed(msg, a), key_ascii |-> Typed(cipherkey, a),
     enc |-> [k \in 0 .. 15 |-> enc[k + 1]]]

(* The message and key of test.txt, those of FIPS-197, appendix B, and     *)
(* those of the benchmark.                                                 *)
AllTexts ==
    {Text([k \in 1 .. 16 |-> <<\hec, \he2, \h98, \hdc>>[((k - 1) % 4) + 1]],
          [k \in 1 .. 16 |-> k - 1], 97,
          <<\hda, \hec, \h30, \h55, \hdf, \h05, \h8e, \h1c,
            \h39, \he8, \h14, \hea, \h76, \hf6, \h74, \h7e>>),
     Text(<<\h32, \h43, \hf6, \ha8, \h88, \h5a, \h30, \h8d,
            \h31, \h31, \h98, \ha2, \he0, \h37, \h07, \h34>>,
          <<\h2b, \h7e, \h15, \h16, \h28, \hae, \hd2, \ha6,
            \hab, \hf7, \h15, \h88, \h09, \hcf, \h4f, \h3c>>, 65,
          <<\h39, \h25, \h84, \h1d, \h02, \hdc, \h09, \hfb,
            \hdc, \h11, \h85, \h97, \h19, \h6a, \h0b, \h32>>),
     Text([k \in 1 .. 16 |-> \haa], [k \in 1 .. 16 |-> \hbb], 97,
          <<\hd6, \hde, \ha9, \h65, \h46, \hb6, \hb7, \h58,
            \hbf, \h4e, \h2e, \h8b, \h21, \hc8, \hc0, \h2e>>)}
=============================================================================
