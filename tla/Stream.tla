------------------------------- MODULE Stream -------------------------------
(***************************************************************************)
(* The connection of two rsync processes: the bytes that travel through    *)
(* the buffers of io.c (IoBuf), what the values written with them mean to  *)
(* the other end (Codec), and the contents of a file that is sent as a     *)
(* difference to another (Delta).  A behaviour is about one of these.      *)
(***************************************************************************)
EXTENDS Codec, IoBuf, Delta

allVars == <<vars, ioVars, deltaVars>>

StreamInit ==
  /\ Init /\ IoInit
  /\ part # "bytes" => am_receiver = CHOOSE r \in AmReceiver : TRUE
  /\ IF part = "delta" THEN DeltaInit ELSE DeltaStart(CHOOSE c \in DeltaConfigs : TRUE, <<>>, <<>>)

Values == Next /\ UNCHANGED <<ioVars, deltaVars>>
Transport == part = "bytes" /\ IoNext /\ UNCHANGED <<vars, deltaVars>>
Transfer == part = "delta" /\ DeltaNext /\ UNCHANGED <<vars, ioVars>>
\* Bytes and values may stop coming; a transfer, once begun, goes on.
Rest == part # "delta" /\ UNCHANGED allVars

StreamSpec == StreamInit /\ [][Values \/ Transport \/ Transfer \/ Rest]_allVars
=============================================================================
