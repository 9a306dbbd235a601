--------------------------- MODULE MCVerification ---------------------------
(* Small instances of Verification.                                        *)
EXTENDS Verification

\* How the two pools vouch for a certificate; the empty pool never does.
Anchors ==
  {[p \in Pools |-> IF p = "store" THEN a[1] ELSE IF p = "system" THEN a[2] ELSE "none"] :
     a \in {<<"none", "none">>, <<"issued", "none">>, <<"root", "none">>, <<"none", "issued">>}}

\* A time stamp that nobody or the store vouches for.
Stampers == {{}, {"store"}}

\* Signers without a meaningless trait: the certificate of the card has its key,
\* and only a time stamp can be covered.
Sensible(s) ==
  /\ "cardcert" \in s.is => "cardkey" \in s.is
  /\ "covered" \in s.is => "stamped" \in s.is
  /\ "stamped" \notin s.is => s.stampedBy = {}

AllSigners ==
  {s \in [is : SUBSET Traits, anchor : Anchors, stampedBy : Stampers] : Sensible(s)}

\* Everything a single signer can be.
Singles == {<<s>> : s \in AllSigners}

\* Signers of a kind that a second one can be of.
Plain ==
  {s \in AllSigners :
     /\ "stamped" \notin s.is
     /\ "current" \in s.is
     /\ s.anchor["system"] = "none"
     /\ {"cardcert", "configured"} \cap s.is # {} => s.anchor["store"] = "none"}

Pairs == {<<s, t>> : s, t \in Plain}

AllSignatures == Singles \cup Pairs

\* A certificate names no responder, or two of which one is configured as well.
Lists == {<<>>, <<"r1", "r2">>}
ThreeResponders == {"r1", "r2", "r3"}
ServerThree == <<"r3", "r2">>
=============================================================================
