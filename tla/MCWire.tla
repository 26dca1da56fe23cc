-------------------------------- MODULE MCWire -------------------------------
(* Values of Wire's constants for TLC.                                       *)
EXTENDS Wire

Bytes(n) == [i \in 1 .. n |-> (17 * i) % 256]

\* Each subcommand of "direct" that sends a command of its own, with a position whose
\* message fills two chunks exactly and whose packet is the longest the link carries, and
\* one that is refused; raw codes with a payload that runs one byte into the third chunk
\* and makes a packet one byte too long for the link, and with a code of two bytes.
SomeOperations ==
  {Shutter, RecordStart, RecordStop, TimelapseStart, TimelapseStop, Marker, PowerOff,
   SetMode("timelapse"), SetHDR("true"), InjectGPS(-90, 180, 331), InjectGPS(91, 0, 0),
   Raw(6, Bytes(25)), Raw(259, <<>>),
   SetWifiConfig(Bytes(3), Bytes(2)), SetWifiConfig(Bytes(3), <<>>),
   SetWifiMode("ap"), SetWifiMode("sta"), GetWifiScanList, ResetWifi,
   GetWifiConfig, GetCameraState, GetWifiMode, GetDeviceInfo}

SomeBatteries ==
  {[level |-> 0, charging |-> TRUE, voltage |-> 0],
   [level |-> 100, charging |-> FALSE, voltage |-> 3900]}

SomeStores ==
  {[total |-> Word(300), free |-> Word(0), files |-> Word(127), formatted |-> FALSE],
   [total |-> Word(128), free |-> Word(16000), files |-> Word(1), formatted |-> FALSE]}

SomeRefusals ==
  {[code |-> 400, text |-> <<78, 79>>], [code |-> 500, text |-> <<>>],
   [code |-> 501, text |-> <<78, 79>>]}

SomeInfos == {[firmware |-> <<49, 46>>, serial |-> <<7>>]}

\* A frame comes out of DecodeFFFrame with the parameters that went in, if its padding
\* is one byte, or is even and the parameters do not end like padding.  Of an odd
\* padding beyond that the last AB goes first, and the pairs before it stay
\* (ffframe.go:112-123).
ASSUME FramesDecode ==
  \A params \in {<<>>, <<1, 0>>, <<171>>, <<186, 5, 171, 186>>}, bufSize \in 0 .. 17 :
    LET frame == EncodeFFFrame(6, 3, params, bufSize)
        pad == Len(frame) - 5 - Len(params)
        likePadding == params # <<>> /\ stripABBAPadding(params) # params
    IN /\ ValidFFFrame(frame)
       /\ FFParams(frame) = params <=> pad = 1 \/ (pad % 2 = 0 /\ ~ likePadding)
=============================================================================
