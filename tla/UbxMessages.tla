----------------------------- MODULE UbxMessages -----------------------------
(***************************************************************************)
(* The messages of ubx_messages_header.h and its supplement                *)
(* ubx_messages_header_custom.h: for every message its id and, for every   *)
(* structure the headers declare for its payload, the fields in order.  A  *)
(* structure an optional or repeated part has of its own is listed under   *)
(* that part's name.  Names of fields and the meaning of values are left   *)
(* out; what is kept is what a cast of received bytes to the structure and *)
(* the _GET macros depend on: type, array length, and the masks of the bit *)
(* fields, as sets of bit numbers.                                         *)
(***************************************************************************)
EXTENDS Naturals, Sequences

\* A C type of the headers: its size, which is also its alignment on the
\* processor, how many the field has of it, and the masks defined on it.
Type(n) == [size |-> n, count |-> 1, masks |-> <<>>]
Array(t, n) == [t EXCEPT !.count = n]
Bits(t, masks) == [t EXCEPT !.masks = masks]

I1 == Type(1)
U1 == Type(1)
X1 == Type(1)
CH == Type(1)
I2 == Type(2)
U2 == Type(2)
X2 == Type(2)
I4 == Type(4)
U4 == Type(4)
X4 == Type(4)
R4 == Type(4)
U8 == Type(8)
R8 == Type(8)

Message(id, structs) == [id |-> id, structs |-> structs]

UbxHead == <<U2, U1, U1, U2>>
UBX_CHKSUM_SIZE == 2

AckAck == Message(\h0501,
  [DATA0 |-> <<U1, U1>>])
AckNak == Message(\h0500,
  [DATA0 |-> <<U1, U1>>])
AidAlm == Message(\h0B30,
  [POLL0 |-> <<>>, POLLID |-> <<U1>>, DATA0 |-> <<U4, U4>>,
   DATA0_DWRD |-> <<Array(U4, 8)>>])
AidAop == Message(\h0B33,
  [POLL0 |-> <<>>, POLLID |-> <<U1>>, DATA2 |-> <<U1, U1, Array(U1, 2),
   Array(U1, 64)>>])
AidEph == Message(\h0B31,
  [POLL0 |-> <<>>, POLLID |-> <<U1>>, DATA0 |-> <<U4, U4>>,
   DATA0_SF1D |-> <<Array(U4, 8), Array(U4, 8), Array(U4, 8)>>])
AidHui == Message(\h0B02,
  [POLL0 |-> <<>>, DATA1 |-> <<X4, R8, R8, I4, I2, I2, I2, I2, I2, I2, R4,
   R4, R4, R4, R4, R4, R4, R4, Bits(X4, <<{0}, {1}, {2}>>)>>])
AidIni == Message(\h0B01,
  [POLL0 |-> <<>>, U6 |-> <<I4, I4, I4, U4, Bits(X2, <<{1}, {4}, {6}>>), U2,
   U4, I4, U4, U4, I4, U4, Bits(X4, <<{0}, {1}, {2}, {3}, {4}, {5}, {6}, {7},
   {10}>>)>>])
CfgAnt == Message(\h0613,
  [POLL0 |-> <<>>, DATA0 |-> <<Bits(X2, <<{0}, {1}, {2}, {3}, {4}>>),
   Bits(X2, <<0 .. 4, 5 .. 9, 10 .. 14, {15}>>)>>])
CfgCfg == Message(\h0609,
  [U5 |-> <<Bits(X4, <<{0}, {1}, {2}, {3}, {4}, {9}, {10}, {11}, {12}>>),
   X4, X4>>, U5_DEVICEMASK |-> <<Bits(X1, <<{0}, {1}, {2}, {4}>>)>>])
CfgDat == Message(\h0606,
  [POLL0 |-> <<>>, SETCUSTOM |-> <<R8, R8, R4, R4, R4, R4, R4, R4, R4>>,
   GETCURRENT |-> <<U2, Array(CH, 6), R8, R8, R4, R4, R4, R4, R4, R4, R4>>])
CfgDosc == Message(\h0661,
  [POLL0 |-> <<>>, DATA0 |-> <<U1, U1, Array(U1, 2)>>, DATA0_OSCID |-> <<U1,
   U1, Bits(X2, <<{0}, 1 .. 4>>), U4, I4, U4, U4, U2, Array(U1, 2), I4, U1,
   Array(U1, 3)>>])
CfgEsrc == Message(\h0660,
  [POLL0 |-> <<>>, DATA0 |-> <<U1, U1, Array(U1, 2)>>,
   DATA0_EXTINT |-> <<U1, U1, Bits(X2, <<{0}, {1}>>), U4, Array(U1, 4), U4,
   U4, U2, U2, I4, U4, U4>>])
CfgGnss == Message(\h063E,
  [POLL0 |-> <<>>, DATA0 |-> <<U1, U1, U1, U1>>, DATA0_GNSSID |-> <<U1, U1,
   U1, U1, Bits(X4, <<{0}, 16 .. 23>>)>>])
CfgInf == Message(\h0602,
  [POLLID |-> <<U1>>, DATA1 |-> <<>>, DATA1_PROTOCOLID |-> <<U1,
   Array(U1, 3), Array(Bits(X1, <<{0}, {1}, {2}, {3}, {4}>>), 6)>>])
CfgItfm == Message(\h0639,
  [POLL0 |-> <<>>, DATA0 |-> <<Bits(X4, <<0 .. 3, 4 .. 8, 9 .. 30, {31}>>),
   Bits(X4, <<0 .. 11, 12 .. 13, {14}>>)>>])
CfgLogfilter == Message(\h0647,
  [POLL0 |-> <<>>, DATA0 |-> <<U1, Bits(X1, <<{0}, {1}, {2}>>), U2, U2, U2,
   U4>>])
CfgMsg == Message(\h0601,
  [POLLID |-> <<U1, U1>>, SETU5 |-> <<U1, U1, Array(U1, 6)>>,
   SETCURRENT |-> <<U1, U1, U1>>])
CfgNav5 == Message(\h0624,
  [POLL0 |-> <<>>, DATA0 |-> <<Bits(X2, <<{0}, {1}, {2}, {3}, {4}, {5}, {6},
   {7}, {8}, {10}>>), U1, U1, I4, U4, I1, U1, U2, U2, U2, U2, U1, U1, U1, U1,
   Array(U1, 2), U2, U1, Array(U1, 5)>>])
CfgNavx5 == Message(\h0623,
  [POLL0 |-> <<>>, DATA0 |-> <<U2,
   Bits(X2, <<{2}, {3}, {6}, {9}, {10}, {13}, {14}>>), Bits(X4, <<{6}>>),
   Array(U1, 2), U1, U1, U1, U1, U1, Array(U1, 2), U1, U2, Array(U1, 6), U1,
   Bits(U1, <<{0}>>), Array(U1, 2), U2, Array(U1, 4), Array(U1, 3), U1>>])
CfgNmea == Message(\h0617,
  [POLL0 |-> <<>>, DATA0 |-> <<Bits(X1, <<{0}, {1}, {2}, {3}, {4}, {5}>>),
   U1, U1, Bits(X1, <<{0}, {1}>>)>>,
   DATA1 |-> <<Bits(X1, <<{0}, {1}, {2}, {3}, {4}, {5}>>), U1, U1,
   Bits(X1, <<{0}, {1}>>), Bits(X4, <<{0}, {1}, {4}, {5}, {6}>>), U1, U1, U1,
   U1>>, DATA2 |-> <<Bits(X1, <<{0}, {1}, {2}, {3}, {4}, {5}>>), U1, U1,
   Bits(X1, <<{0}, {1}, {2}>>), Bits(X4, <<{0}, {1}, {4}, {5}, {6}>>), U1,
   U1, U1, U1, Array(CH, 2), Array(U1, 6)>>])
CfgOdo == Message(\h061E,
  [POLL1 |-> <<>>, DATA1 |-> <<U1, Array(U1, 3),
   Bits(U1, <<{0}, {1}, {2}, {3}>>), Bits(X1, <<0 .. 2>>), Array(U1, 6), U1,
   U1, Array(U1, 2), U1, U1, Array(U1, 2)>>])
CfgPm2 == Message(\h063B,
  [POLL0 |-> <<>>, DATA0 |-> <<U1, U1, U1, U1, Bits(X4, <<{4}, {5}, {6},
   8 .. 9, {10}, {11}, {12}, {16}, 17 .. 18>>), U4, U4, U4, U2, U2,
   Array(U1, 20)>>])
CfgPrt == Message(\h0600,
  [POLL0 |-> <<>>, POLLID |-> <<U1>>, UART |-> <<U1, U1,
   Bits(X2, <<{0}, {1}, 2 .. 6, 7 .. 15>>),
   Bits(X4, <<6 .. 7, 9 .. 11, 12 .. 13>>), U4, Bits(X2, <<{0}, {1}, {2}>>),
   Bits(X2, <<{0}, {1}>>), Bits(X2, <<{1}>>), Array(U1, 2)>>, USB |-> <<U1,
   U1, Bits(X2, <<{0}, {1}, 2 .. 6, 7 .. 15>>), Array(U1, 8),
   Bits(X2, <<{0}, {1}, {2}>>), Bits(X2, <<{0}, {1}>>), Array(U1, 2),
   Array(U1, 2)>>, SPI |-> <<U1, U1, Bits(X2, <<{0}, {1}, 2 .. 6, 7 .. 15>>),
   Bits(X4, <<1 .. 2, {6}, 8 .. 13>>), Array(U1, 4),
   Bits(X2, <<{0}, {1}, {2}>>), Bits(X2, <<{0}, {1}>>), Bits(X2, <<{1}>>),
   Array(U1, 2)>>, DDC |-> <<U1, U1, Bits(X2, <<{0}, {1}, 2 .. 6, 7 .. 15>>),
   Bits(X4, <<1 .. 7>>), Array(U1, 4), Bits(X2, <<{0}, {1}, {2}>>),
   Bits(X2, <<{0}, {1}>>), Bits(X2, <<{1}>>), Array(U1, 2)>>])
CfgPwr == Message(\h0657,
  [DATA1 |-> <<U1, Array(U1, 3), U4>>])
CfgRate == Message(\h0608,
  [POLL0 |-> <<>>, DATA0 |-> <<U2, U2, U2>>])
CfgRinv == Message(\h0634,
  [POLL0 |-> <<>>, DATA0 |-> <<Bits(X1, <<{0}, {1}>>)>>,
   DATA0_DATA |-> <<U1>>])
CfgRst == Message(\h0604,
  [DATA3 |-> <<Bits(X2, <<{0}, {1}, {2}, {3}, {4}, {5}, {6}, {7}, {8},
   {15}>>), U1, U1>>])
CfgRxm == Message(\h0611,
  [POLL0 |-> <<>>, DATA1 |-> <<U1, U1>>])
CfgSbas == Message(\h0616,
  [POLL0 |-> <<>>, U5 |-> <<Bits(X1, <<{0}, {1}>>),
   Bits(X1, <<{0}, {1}, {2}>>), U1,
   Bits(X1, <<{0}, {1}, {2}, {3}, {4}, {5}, {6}>>), Bits(X4, <<{0}, {1}, {2},
   {3}, {4}, {5}, {6}, {7}, {8}, {9}, {10}, {11}, {12}, {13}, {14}, {15},
   {16}, {17}, {18}, {19}, {20}, {21}, {22}, {23}, {24}, {25}, {26}, {27},
   {28}, {29}, {30}, {31}>>)>>])
CfgSmgr == Message(\h0662,
  [POLL0 |-> <<>>, DATA0 |-> <<U1, U1, U2, U2, Array(U1, 2), U2, U2,
   Bits(X2, <<{0}, {1}, {2}, {3}>>), U2, Bits(X4, <<{0}, {1}, {2}, {3}, {4},
   {5}, {6}, {7}, {10}, {11}, {12}, {13}, 14 .. 15, {16}>>)>>])
CfgTmode2 == Message(\h063D,
  [POLL0 |-> <<>>, DATA0 |-> <<U1, U1, Bits(X2, <<{0}, {1}>>), I4, I4, I4,
   U4, U4, U4>>])
CfgTp5 == Message(\h0631,
  [POLL0 |-> <<>>, POLLIX |-> <<U1>>, DATA0 |-> <<U1, U1, Array(U1, 2), I2,
   I2, U4, U4, U4, U4, I4,
   Bits(X4, <<{0}, {1}, {2}, {3}, {4}, {5}, {6}, {7}>>)>>, DATA1 |-> <<U1,
   U1, Array(U1, 2), I2, I2, U4, U4, U4, U4, I4, Bits(X4, <<{0}, {1}, {2},
   {3}, {4}, {5}, {6}, 7 .. 10, 11 .. 13>>)>>])
CfgTxslot == Message(\h0653,
  [DATA0_END |-> <<U4>>, DATA0 |-> <<U1,
   Bits(X1, <<{0}, {1}, {2}, {3}, {4}>>), U1, U1, U4, U4, U4>>])
CfgUsb == Message(\h061B,
  [POLL0 |-> <<>>, DATA0 |-> <<U2, U2, Array(U1, 2), Array(U1, 2), U2,
   Bits(X2, <<{0}, {1}>>), Array(CH, 32), Array(CH, 32), Array(CH, 32)>>])
LogCreate == Message(\h2107,
  [CREATE0 |-> <<U1, Bits(X1, <<{0}>>), U1, U1, U4>>])
LogErase == Message(\h2103,
  [DATA0 |-> <<>>])
LogFindtime == Message(\h210E,
  [REQUEST |-> <<U1, U1, Array(U1, 2), U2, U1, U1, U1, U1, U1, U1>>,
   RESPONSE |-> <<U1, U1, Array(U1, 2), U4>>])
LogInfo == Message(\h2108,
  [POLL0 |-> <<>>, DATA0 |-> <<U1, Array(U1, 3), U4, Array(U1, 8), U4, U4,
   U4, U2, U1, U1, U1, U1, U1, U1, U2, U1, U1, U1, U1, U1, U1,
   Bits(X1, <<{3}, {4}, {5}>>), Array(U1, 3)>>])
LogRetrieveposextra == Message(\h210F,
  [ODOMETER0 |-> <<U4, U1, U1, U2, U1, U1, U1, U1, U1, Array(U1, 3), U4,
   Array(U1, 12)>>])
LogRetrievepos == Message(\h210B,
  [POS0 |-> <<U4, I4, I4, I4, U4, U4, U4, U1, U1, U2, U1, U1, U1, U1, U1,
   U1, U1, U1>>])
LogRetrievestring == Message(\h210D,
  [STRING0 |-> <<U4, U1, U1, U2, U1, U1, U1, U1, U1, U1, U2>>,
   STRING0_BYTES |-> <<U1>>])
LogRetrieve == Message(\h2109,
  [REQ0 |-> <<U4, U4, U1, Array(U1, 3)>>])
LogString == Message(\h2104,
  [DATA0 |-> <<>>, DATA0_BYTES |-> <<U1>>])
MgaAck == Message(\h1360,
  [DATA0 |-> <<U1, U1, U1, U1, Array(U1, 4)>>])
MgaAno == Message(\h1320,
  [DATA0 |-> <<U1, U1, U1, U1, U1, U1, U1, U1, Array(U1, 64),
   Array(U1, 4)>>])
MgaDbd == Message(\h1380,
  [POLL |-> <<>>, DATA0 |-> <<Array(U1, 12)>>, DATA0_DATA |-> <<U1>>])
MgaFlash == Message(\h1321,
  [DATA |-> <<U1, U1, U2, U2>>, DATA_DATA |-> <<U1>>, STOP |-> <<U1, U1>>,
   ACK |-> <<U1, U1, U1, U1, U2>>])
MgaGlo == Message(\h1306,
  [EPH |-> <<U1, U1, U1, U1, U1, U1, U1, I1, I4, I4, I4, I4, I4, I4, I1, I1,
   I1, U1, I2, U1, I1, I4, Array(U1, 4)>>, ALM |-> <<U1, U1, U1, U1, U2, U1,
   U1, I2, U2, I4, I4, U4, I4, I1, I1, I2, Array(U1, 4)>>,
   TIMEOFFSET |-> <<U1, U1, U2, I4, I4, I2, I2, Array(U1, 4)>>])
MgaGps == Message(\h1300,
  [EPH |-> <<U1, U1, U1, U1, U1, U1, U1, I1, U2, U2, U1, I1, I2, I4, I2, I2,
   I4, I2, I2, U4, U4, U2, I2, I4, I2, I2, I4, I4, I4, I2, Array(U1, 2)>>,
   ALM |-> <<U1, U1, U1, U1, U2, U1, U1, I2, I2, U4, I4, I4, I4, I2, I2,
   Array(U1, 4)>>, HEALTH |-> <<U1, Array(U1, 3), Array(U1, 32),
   Array(U1, 4)>>, UTC |-> <<U1, Array(U1, 3), I4, I4, I1, U1, U1, U1, U1,
   I1, Array(U1, 2)>>, IONO |-> <<U1, Array(U1, 3), I1, I1, I1, I1, I1, I1,
   I1, I1, Array(U1, 4)>>])
MgaIni == Message(\h1340,
  [POS_XYZ |-> <<U1, Array(U1, 3), I4, I4, I4, U4>>, POS_LLH |-> <<U1,
   Array(U1, 3), I4, I4, I4, U4>>, TIME_UTC |-> <<U1, U1,
   Bits(X1, <<0 .. 3, {4}, {5}>>), I1, U2, U1, U1, U1, U1, U1, U1, U4, U2,
   Array(U1, 2), U4>>, TIME_GNSS |-> <<U1, U1,
   Bits(X1, <<0 .. 3, {4}, {5}>>), U1, Array(U1, 2), U2, U4, U4, U2,
   Array(U1, 2), U4>>, CLKD |-> <<U1, Array(U1, 3), I4, U4>>, FREQ |-> <<U1,
   Array(U1, 2), Bits(X1, <<0 .. 3, {4}>>), I4, U4>>, EOP |-> <<U1,
   Array(U1, 3), U2, U2, I4, I4, I4, I4, I4, I4, Array(U1, 40)>>])
MgaQzss == Message(\h1305,
  [EPH |-> <<U1, U1, U1, U1, U1, U1, U1, I1, U2, U2, U1, I1, I2, I4, I2, I2,
   I4, I2, I2, U4, U4, U2, I2, I4, I2, I2, I4, I4, I4, I2, Array(U1, 2)>>,
   ALM |-> <<U1, U1, U1, U1, U2, U1, U1, I2, I2, U4, I4, I4, I4, I2, I2,
   Array(U1, 4)>>, HEALTH |-> <<U1, Array(U1, 3), Array(U1, 5),
   Array(U1, 3)>>])
MonGnss == Message(\h0A28,
  [DATA0 |-> <<U1, Bits(X1, <<{0}, {1}, {2}>>), Bits(X1, <<{0}, {1}, {2}>>),
   Bits(X1, <<{0}, {1}, {2}>>), U1, Array(U1, 3)>>])
MonHw2 == Message(\h0A0B,
  [DATA0 |-> <<I1, U1, I1, U1, U1, Array(U1, 3), U4, Array(U1, 8), U4,
   Array(U1, 4)>>])
MonHw == Message(\h0A09,
  [TITLIS |-> <<X4, X4, X4, X4, U2, U2, U1, U1,
   Bits(X1, <<{0}, {1}, 2 .. 3, {4}>>), U1, X4, Array(U1, 17), U1,
   Array(U1, 2), X4, X4, X4>>])
MonIo == Message(\h0A02,
  [DATA0 |-> <<>>, DATA0_RXBYTES |-> <<U4, U4, U2, U2, U2, U2, U1, U1,
   Array(U1, 2)>>])
MonMsgpp == Message(\h0A06,
  [U5 |-> <<Array(U2, 8), Array(U2, 8), Array(U2, 8), Array(U2, 8),
   Array(U2, 8), Array(U2, 8), Array(U4, 6)>>])
MonPatch == Message(\h0A27,
  [POLL0 |-> <<>>, DATA0 |-> <<U2, U2>>,
   DATA0_PATCHINFO |-> <<Bits(X4, <<{0}, 1 .. 2>>), U4, U4, U4>>])
MonRxbuf == Message(\h0A07,
  [U5 |-> <<Array(U2, 6), Array(U1, 6), Array(U1, 6)>>])
MonRxr == Message(\h0A21,
  [VER0 |-> <<Bits(X1, <<{0}>>)>>])
MonSmgr == Message(\h0A2E,
  [DATA0 |-> <<U1, Array(U1, 3), U4, Bits(X2, <<0 .. 3, {4}, {5}>>),
   Bits(X2, <<0 .. 3, {4}, {5}>>), U1, Bits(X1, <<{0}>>),
   Bits(X1, <<{0}, {1}, {2}>>), Bits(X1, <<{0}, {1}, {2}>>)>>])
MonTxbuf == Message(\h0A08,
  [U5 |-> <<Array(U2, 6), Array(U1, 6), Array(U1, 6), U1, U1,
   Bits(X1, <<0 .. 5, {6}, {7}>>), U1>>])
MonVer == Message(\h0A04,
  [POLL0 |-> <<>>, DATA0 |-> <<Array(CH, 30), Array(CH, 10)>>,
   DATA0_EXTENSION |-> <<Array(CH, 30)>>])
NavAopstatus == Message(\h0160,
  [DATA1 |-> <<U4, Bits(U1, <<{0}>>), U1, Array(U1, 10)>>])
NavClock == Message(\h0122,
  [DATA0 |-> <<U4, I4, I4, U4, U4>>])
NavDgps == Message(\h0131,
  [DATA0 |-> <<U4, I4, I2, I2, U1, U1, Array(U1, 2)>>, DATA0_SVID |-> <<U1,
   Bits(X1, <<0 .. 3, {4}>>), U2, R4, R4>>])
NavDop == Message(\h0104,
  [DATA0 |-> <<U4, U2, U2, U2, U2, U2, U2, U2>>])
NavOdo == Message(\h0109,
  [DATA0 |-> <<U1, Array(U1, 3), U4, U4, U4, U4>>])
NavOrb == Message(\h0134,
  [DATA0 |-> <<U4, U1, U1, Array(U1, 2)>>, DATA0_GNSSID |-> <<U1, U1,
   Bits(X1, <<0 .. 1, 2 .. 3>>), Bits(X1, <<0 .. 4, 5 .. 7>>),
   Bits(X1, <<0 .. 4, 5 .. 7>>), Bits(X1, <<0 .. 4, 5 .. 7>>)>>])
NavPosecef == Message(\h0101,
  [DATA0 |-> <<U4, I4, I4, I4, U4>>])
NavPosllh == Message(\h0102,
  [DATA0 |-> <<U4, I4, I4, I4, I4, U4, U4>>])
NavPvtShort == Message(\h0107,
  [DATA1 |-> <<U4, U2, U1, U1, U1, U1, U1, Bits(X1, <<{0}, {1}, {2}>>), U4,
   I4, U1, Bits(X1, <<{0}, {1}, 2 .. 4, {5}>>), U1, U1, I4, I4, I4, I4, U4,
   U4, I4, I4, I4, I4, I4, U4, U4, U2, X2, Array(U1, 2), I4, I2, U2>>])
NavPvt == Message(\h0107,
  [DATA1 |-> <<U4, U2, U1, U1, U1, U1, U1, Bits(X1, <<{0}, {1}, {2}>>), U4,
   I4, U1, Bits(X1, <<{0}, {1}, 2 .. 4, {5}>>), U1, U1, I4, I4, I4, I4, U4,
   U4, I4, I4, I4, I4, I4, U4, U4, U2, X2, Array(U1, 4), I4, I2, U2>>])
NavResetodo == Message(\h0110,
  [DATA0 |-> <<>>])
NavSat == Message(\h0135,
  [DATA0 |-> <<U4, U1, U1, Array(U1, 2)>>, DATA0_GNSSID |-> <<U1, U1, U1,
   I1, I2, I2, Bits(X4, <<0 .. 2, {3}, 4 .. 5, {6}, {7}, 8 .. 10, {11}, {12},
   {13}, {14}>>)>>])
NavSbas == Message(\h0132,
  [DATA0 |-> <<U4, U1, U1, I1, Bits(X1, <<{0}, {1}, {2}, {3}>>), U1,
   Array(U1, 3)>>, DATA0_SVID |-> <<U1, U1, U1, U1, U1, U1, I2, Array(U1, 2),
   I2>>])
NavSol == Message(\h0106,
  [DATA0 |-> <<U4, I4, I2, U1, Bits(X1, <<{0}, {1}, {2}, {3}>>), I4, I4, I4,
   U4, I4, I4, I4, U4, U2, U1, U1, Array(U1, 4)>>])
NavStatus == Message(\h0103,
  [DATA1 |-> <<U4, U1, Bits(X1, <<{0}, {1}, {2}, {3}>>),
   Bits(X1, <<{0}, 6 .. 7>>), Bits(X1, <<0 .. 1>>), U4, U4>>])
NavSvinfo == Message(\h0130,
  [DATA0 |-> <<U4, U1, Bits(X1, <<0 .. 2>>), Array(U1, 2)>>,
   DATA0_CHN |-> <<U1, U1,
   Bits(X1, <<{0}, {1}, {2}, {3}, {4}, {5}, {6}, {7}>>),
   Bits(X1, <<0 .. 3>>), U1, I1, I2, I4>>])
NavTimebds == Message(\h0124,
  [DATA0 |-> <<U4, U4, I4, I2, I1, Bits(X1, <<{0}, {1}, {2}>>), U4>>])
NavTimeglo == Message(\h0123,
  [DATA0 |-> <<U4, U4, I4, U2, U1, Bits(X1, <<{0}, {1}>>), U4>>])
NavTimegps == Message(\h0120,
  [DATA0 |-> <<U4, I4, I2, I1, Bits(X1, <<{0}, {1}, {2}>>), U4>>])
NavTimeutc == Message(\h0121,
  [DATA0 |-> <<U4, U4, I4, U2, U1, U1, U1, U1, U1,
   Bits(X1, <<{0}, {1}, {2}, 4 .. 7>>)>>])
NavVelecef == Message(\h0111,
  [DATA0 |-> <<U4, I4, I4, I4, U4>>])
NavVelned == Message(\h0112,
  [DATA0 |-> <<U4, I4, I4, I4, U4, U4, I4, U4, U4>>])
RxmPmreq == Message(\h0241,
  [REQ |-> <<U4, Bits(X4, <<{1}>>)>>])
RxmRawx == Message(\h0215,
  [DATA0 |-> <<R8, U2, I1, U1, Bits(X1, <<{0}, {1}>>), Array(U1, 3)>>,
   DATA0_PRMES |-> <<R8, R8, R4, U1, U1, U1, U1, U2, U1,
   Bits(X1, <<0 .. 3>>), Bits(X1, <<0 .. 3>>), Bits(X1, <<0 .. 3>>),
   Bits(X1, <<{0}, {1}, {2}, {3}>>), U1>>])
RxmSfrbx == Message(\h0213,
  [DATA1 |-> <<U1, U1, U1, U1, U1, U1, U1, U1>>, DATA1_DWRD |-> <<U4>>])
RxmSvsi == Message(\h0220,
  [DATA0 |-> <<U4, I2, U1, U1>>, DATA0_SVID |-> <<U1,
   Bits(X1, <<0 .. 3, {4}, {5}, {6}, {7}>>), I2, I1,
   Bits(X1, <<0 .. 3, 4 .. 7>>)>>])
TimDosc == Message(\h0D11,
  [DATA0 |-> <<U1, Array(U1, 3), U4>>])
TimFchg == Message(\h0D16,
  [DATA0 |-> <<U1, Array(U1, 3), U4, I4, U4, U4, I4, U4, U4>>])
TimHoc == Message(\h0D17,
  [DATA0 |-> <<U1, U1, Bits(U1, <<{0}, {1}>>), U1, I4>>])
TimSmeas == Message(\h0D13,
  [DATA0 |-> <<U1, U1, Array(U1, 2), U4, Array(U1, 4)>>,
   DATA0_SOURCEID |-> <<U1, Bits(X1, <<{0}, {1}>>), I1, U1, I4, U4,
   Array(U1, 4), I4, U4>>])
TimSvin == Message(\h0D04,
  [DATA0 |-> <<U4, I4, I4, I4, U4, U4, U1, U1, Array(U1, 2)>>])
TimTm2 == Message(\h0D03,
  [DATA1 |-> <<U1, Bits(X1, <<{0}, {1}, {2}, 3 .. 4, {5}, {6}, {7}>>), U2,
   U2, U2, U4, U4, U4, U4, U4>>])
TimTos == Message(\h0D12,
  [DATA0 |-> <<U1, U1, Array(U1, 2), Bits(X4, <<{0}, {1}, {2}, {3}, {4},
   {5}, {6}, {7}, 8 .. 10, {11}, {12}, {13}>>), U2, U1, U1, U1, U1, U1, U1,
   I4, U4, U4, U4, I4, U4, I4, U4, I4, U4>>])
TimTp == Message(\h0D01,
  [DATA0 |-> <<U4, U4, I4, U2, Bits(X1, <<{0}, {1}, 2 .. 3>>),
   Bits(X1, <<0 .. 3, 4 .. 7>>)>>])
TimVcocal == Message(\h0D15,
  [STOP |-> <<U1>>, CMD1 |-> <<U1, U1, U1, U1, Array(U1, 2), U2, U2, U2>>,
   DATA0 |-> <<U1, U1, U1, Array(U1, 3), U2, I4>>])
TimVrfy == Message(\h0D06,
  [DATA1 |-> <<I4, I4, I4, I4, U2, Bits(X1, <<0 .. 2>>), U1>>])
UpdSos == Message(\h0914,
  [POLL0 |-> <<>>, BACKUP |-> <<U1, Array(U1, 3)>>, CLEAR |-> <<U1,
   Array(U1, 3)>>, ACK |-> <<U1, Array(U1, 3), U1, Array(U1, 3)>>,
   RESTORED |-> <<U1, Array(U1, 3), U1, Array(U1, 3)>>])

(***************************************************************************)
(* The supplement: the version of an M10, the raw sensor message with its  *)
(* header and checksum, the key and value of ubxlib.                       *)
(***************************************************************************)
MonVerM10 == Message(\h0A04,
  [M10 |-> <<Array(CH, 30), Array(CH, 10), Array(CH, 30), Array(CH, 30),
   Array(CH, 30), Array(CH, 30), Array(CH, 30)>>])
EsfRaw == Message(\h1003,
  [FRAME |-> UbxHead \o <<U4, X2, U2, Array(X4, 7), U1, U1>>])
CfgValset == Message(\h068A, [PAIR |-> <<U4, U8>>])

\* Every message, under its name in the headers.
Messages ==
  [ACK_ACK |-> AckAck, ACK_NAK |-> AckNak, AID_ALM |-> AidAlm,
   AID_AOP |-> AidAop, AID_EPH |-> AidEph, AID_HUI |-> AidHui,
   AID_INI |-> AidIni, CFG_ANT |-> CfgAnt, CFG_CFG |-> CfgCfg,
   CFG_DAT |-> CfgDat, CFG_DOSC |-> CfgDosc, CFG_ESRC |-> CfgEsrc,
   CFG_GNSS |-> CfgGnss, CFG_INF |-> CfgInf, CFG_ITFM |-> CfgItfm,
   CFG_LOGFILTER |-> CfgLogfilter, CFG_MSG |-> CfgMsg, CFG_NAV5 |-> CfgNav5,
   CFG_NAVX5 |-> CfgNavx5, CFG_NMEA |-> CfgNmea, CFG_ODO |-> CfgOdo,
   CFG_PM2 |-> CfgPm2, CFG_PRT |-> CfgPrt, CFG_PWR |-> CfgPwr,
   CFG_RATE |-> CfgRate, CFG_RINV |-> CfgRinv, CFG_RST |-> CfgRst,
   CFG_RXM |-> CfgRxm, CFG_SBAS |-> CfgSbas, CFG_SMGR |-> CfgSmgr,
   CFG_TMODE2 |-> CfgTmode2, CFG_TP5 |-> CfgTp5, CFG_TXSLOT |-> CfgTxslot,
   CFG_USB |-> CfgUsb, LOG_CREATE |-> LogCreate, LOG_ERASE |-> LogErase,
   LOG_FINDTIME |-> LogFindtime, LOG_INFO |-> LogInfo,
   LOG_RETRIEVEPOSEXTRA |-> LogRetrieveposextra,
   LOG_RETRIEVEPOS |-> LogRetrievepos,
   LOG_RETRIEVESTRING |-> LogRetrievestring, LOG_RETRIEVE |-> LogRetrieve,
   LOG_STRING |-> LogString, MGA_ACK |-> MgaAck, MGA_ANO |-> MgaAno,
   MGA_DBD |-> MgaDbd, MGA_FLASH |-> MgaFlash, MGA_GLO |-> MgaGlo,
   MGA_GPS |-> MgaGps, MGA_INI |-> MgaIni, MGA_QZSS |-> MgaQzss,
   MON_GNSS |-> MonGnss, MON_HW2 |-> MonHw2, MON_HW |-> MonHw,
   MON_IO |-> MonIo, MON_MSGPP |-> MonMsgpp, MON_PATCH |-> MonPatch,
   MON_RXBUF |-> MonRxbuf, MON_RXR |-> MonRxr, MON_SMGR |-> MonSmgr,
   MON_TXBUF |-> MonTxbuf, MON_VER |-> MonVer,
   NAV_AOPSTATUS |-> NavAopstatus, NAV_CLOCK |-> NavClock,
   NAV_DGPS |-> NavDgps, NAV_DOP |-> NavDop, NAV_ODO |-> NavOdo,
   NAV_ORB |-> NavOrb, NAV_POSECEF |-> NavPosecef, NAV_POSLLH |-> NavPosllh,
   NAV_PVT |-> NavPvt, NAV_RESETODO |-> NavResetodo, NAV_SAT |-> NavSat,
   NAV_SBAS |-> NavSbas, NAV_SOL |-> NavSol, NAV_STATUS |-> NavStatus,
   NAV_SVINFO |-> NavSvinfo, NAV_TIMEBDS |-> NavTimebds,
   NAV_TIMEGLO |-> NavTimeglo, NAV_TIMEGPS |-> NavTimegps,
   NAV_TIMEUTC |-> NavTimeutc, NAV_VELECEF |-> NavVelecef,
   NAV_VELNED |-> NavVelned, RXM_PMREQ |-> RxmPmreq, RXM_RAWX |-> RxmRawx,
   RXM_SFRBX |-> RxmSfrbx, RXM_SVSI |-> RxmSvsi, TIM_DOSC |-> TimDosc,
   TIM_FCHG |-> TimFchg, TIM_HOC |-> TimHoc, TIM_SMEAS |-> TimSmeas,
   TIM_SVIN |-> TimSvin, TIM_TM2 |-> TimTm2, TIM_TOS |-> TimTos,
   TIM_TP |-> TimTp, TIM_VCOCAL |-> TimVcocal, TIM_VRFY |-> TimVrfy,
   UPD_SOS |-> UpdSos,
   MON_VER_M10 |-> MonVerM10, ESF_RAW |-> EsfRaw, CFG_VALSET |-> CfgValset]

=============================================================================
