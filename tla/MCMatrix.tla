------------------------------ MODULE MCMatrix ------------------------------
(* TLC values for Matrix: short campaigns in the shape of the profiles of    *)
(* loadgen/common/env.sh.                                                    *)
EXTENDS Matrix

Echo           == <<"echo">>
OneLevel       == <<2>>
MatchOnly      == <<Match>>
TwiceTheSame   == <<Match, 2>>   \* the default "match 8 1" at concurrency 8
OneRate        == <<100>>
=============================================================================
