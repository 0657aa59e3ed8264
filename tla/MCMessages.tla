----------------------------- MODULE MCMessages -----------------------------
(* Padded messages as words, and their digests. *)
EXTENDS Integers, Sequences, Word32

\* "abc" (FIPS 180, one block)
abc ==
  <<<<Halves(24930, 25472), Halves(0, 0), Halves(0, 0), Halves(0, 0),
      Halves(0, 0), Halves(0, 0), Halves(0, 0), Halves(0, 0),
      Halves(0, 0), Halves(0, 0), Halves(0, 0), Halves(0, 0),
      Halves(0, 0), Halves(0, 0), Halves(0, 0), Halves(0, 24)>>>>

\* The standard's message of 448 bits, two blocks.
two ==
  <<<<Halves(24930, 25444), Halves(25187, 25701), Halves(25444, 25958), Halves(25701, 26215),
      Halves(25958, 26472), Halves(26215, 26729), Halves(26472, 26986), Halves(26729, 27243),
      Halves(26986, 27500), Halves(27243, 27757), Halves(27500, 28014), Halves(27757, 28271),
      Halves(28014, 28528), Halves(28271, 28785), Halves(32768, 0), Halves(0, 0)>>,
    <<Halves(0, 0), Halves(0, 0), Halves(0, 0), Halves(0, 0),
      Halves(0, 0), Halves(0, 0), Halves(0, 0), Halves(0, 0),
      Halves(0, 0), Halves(0, 0), Halves(0, 0), Halves(0, 0),
      Halves(0, 0), Halves(0, 0), Halves(0, 0), Halves(0, 448)>>>>

\* A last block hash and the nonce 4711.
share ==
  <<<<Halves(13876, 14180), Halves(24888, 14433), Halves(14694, 25904), Halves(13112, 14129),
      Halves(25957, 12899), Halves(25399, 25139), Halves(26211, 12643), Halves(13665, 14647),
      Halves(24883, 25185), Halves(25138, 12852), Halves(13367, 12593), Halves(32768, 0),
      Halves(0, 0), Halves(0, 0), Halves(0, 0), Halves(0, 352)>>>>

SomeMessages == {abc, two, share}

TheirDigests ==
  [m \in SomeMessages |->
    IF m = abc THEN <<Halves(43417, 15926), Halves(18182, 33130), Halves(47678, 9585), Halves(30800, 49772), Halves(40144, 55453)>>
    ELSE IF m = two THEN <<Halves(33944, 15940), Halves(7227, 53870), Halves(47790, 19105), Halves(63825, 10725), Halves(58694, 28913)>>
    ELSE <<Halves(2420, 16787), Halves(7305, 39386), Halves(29740, 9287), Halves(20626, 12263), Halves(57312, 28945)>>]

================================================================================
