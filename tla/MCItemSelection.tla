-------------------------- MODULE MCItemSelection --------------------------
(***************************************************************************)
(* Instances of ItemSelection for TLC: a directory with a file and a       *)
(* nested directory that holds another, a directory whose name begins like *)
(* the first one's, which is empty, and a file beside them.                *)
(***************************************************************************)
EXTENDS SelectionProperties

CONSTANTS d, df, de, deg, dx, h

Items == {d, df, de, deg, dx, h}
Directories == {d, de, dx}
InOrder == <<d, de, deg, df, dx, h>>
Paths == d :> <<"d">> @@ df :> <<"d", "f">> @@ de :> <<"d", "e">>
            @@ deg :> <<"d", "e", "g">> @@ dx :> <<"dx">> @@ h :> <<"h">>
Sizes == d :> 0 @@ de :> 0 @@ dx :> 0 @@ df :> 1 @@ deg :> 2 @@ h :> 4
=============================================================================
