----------------------------- MODULE ServoProofs -----------------------------
(***************************************************************************)
(* The parts of a servo for every instance: the frames that go to it and   *)
(* come from it, its safe mode, the springs of a leader's joints and the   *)
(* passive encoder of a teaching handle.                                   *)
(***************************************************************************)
EXTENDS ServoChecks, PassiveEncoder, Codec, Spring, SequenceTheorems, TLAPS

-----------------------------------------------------------------------------
(***************************************************************************)
(* The frames.                                                             *)
(***************************************************************************)

(* Integer division rounds down.                                              *)
LEMMA Division ==
    ASSUME NEW n \in Int, NEW d \in Nat \ {0}
    PROVE  /\ n \div d \in Int
           /\ (n \div d) * d <= n /\ n < (n \div d) * d + d
  OBVIOUS

(* Products keep the order.                                                   *)
LEMMA Products ==
    ASSUME NEW p \in Int, NEW q \in Int, NEW d \in Nat, p <= q
    PROVE  p * d <= q * d
  OBVIOUS

(* A field is 9, 12 or 16 bits wide.                                          *)
LEMMA Widths ==
    ASSUME kind \in Kinds, NEW f \in Fields
    PROVE  /\ f = "pos" => Full(f) = 65535
           /\ f = "kd" /\ kind = "encos" => Full(f) = 511
           /\ f # "pos" /\ ~(f = "kd" /\ kind = "encos") => Full(f) = 4095
           /\ Full(f) \in Nat \ {0}
  BY DEF Full, Bits, Fields

(* float_to_uint() of a value in the range is a code of the field, within one *)
(* step of the value, and the ends of the range are the ends of the field.    *)
LEMMA Coded ==
    ASSUME NEW lo \in Int, NEW hi \in Int, lo < hi, NEW x \in lo .. hi, NEW f,
           Full(f) \in Nat \ {0}
    PROVE  /\ float_to_uint(x, <<lo, hi>>, f) \in 0 .. Full(f)
           /\ Near(float_to_uint(x, <<lo, hi>>, f), x, <<lo, hi>>, f)
           /\ x = lo => float_to_uint(x, <<lo, hi>>, f) = 0
           /\ x = hi => float_to_uint(x, <<lo, hi>>, f) = Full(f)
           /\ x < hi => float_to_uint(x, <<lo, hi>>, f) < Full(f)
  <1> DEFINE F == Full(f)
             a == x - lo
             d == hi - lo
             n == F * a
             q == n \div d
  <1>1. F \in Nat \ {0} /\ a \in 0 .. d /\ d \in Nat \ {0}
    OBVIOUS
  <1>2. float_to_uint(x, <<lo, hi>>, f) = q
    BY DEF float_to_uint
  <1>3. Near(q, x, <<lo, hi>>, f) <=> (-d < q * d - a * F /\ q * d - a * F < d)
    BY DEF Near
  <1> HIDE DEF F, a, d
  <1>4. n \in Int /\ 0 <= n /\ n <= F * d /\ F * d = d * F /\ n = a * F
    <2>1. a * F <= d * F /\ 0 * F <= a * F
      BY <1>1, Products
    <2> QED
      BY <1>1, <2>1
  <1>5. a < d => n < F * d
    <2>1. ASSUME a < d PROVE (a + 1) * F <= d * F
      BY <1>1, <2>1, Products
    <2>2. (a + 1) * F = a * F + F
      BY <1>1
    <2> QED
      BY <1>1, <1>4, <2>1, <2>2
  <1> HIDE DEF n
  <1>6. q \in Int /\ q * d <= n /\ n < q * d + d
    BY <1>1, <1>4, Division
  <1> HIDE DEF q
  <1>7. 0 <= q
    <2>1. q <= -1 => q * d <= (-1) * d
      BY <1>1, <1>6, Products
    <2> QED
      BY <1>1, <1>4, <1>6, <2>1
  <1>8. q <= F
    <2>1. F + 1 <= q => (F + 1) * d <= q * d
      BY <1>1, <1>6, Products
    <2>2. (F + 1) * d = F * d + d
      BY <1>1
    <2> QED
      BY <1>1, <1>4, <1>6, <2>1, <2>2
  <1>9. a < d => q < F
    <2>1. F <= q => F * d <= q * d
      BY <1>1, <1>6, Products
    <2> QED
      BY <1>1, <1>4, <1>5, <1>6, <2>1
  <1>10. a = 0 => q = 0
    <2>1. 1 <= q => 1 * d <= q * d
      BY <1>1, <1>6, Products
    <2>2. a = 0 => n = 0
      BY <1>1, <1>4
    <2> QED
      BY <1>1, <1>6, <1>7, <2>1, <2>2
  <1>11. a = d => q = F
    <2>1. q <= F - 1 => q * d <= (F - 1) * d
      BY <1>1, <1>6, Products
    <2>2. (F - 1) * d = F * d - d
      BY <1>1
    <2>3. a = d => n = F * d
      BY <1>4
    <2> QED
      BY <1>1, <1>4, <1>6, <1>8, <2>1, <2>2, <2>3
  <1>12. -d < q * d - a * F /\ q * d - a * F < d
    BY <1>1, <1>4, <1>6
  <1>13. (x = lo => a = 0) /\ (x = hi => a = d) /\ (x < hi => a < d)
    BY DEF a, d
  <1> QED
    BY <1>1, <1>2, <1>3, <1>6, <1>7, <1>8, <1>9, <1>10, <1>11, <1>12, <1>13 DEF F

Byte == {n \in Nat : n <= 255}

(* A 16-bit field in two bytes.                                               *)
LEMMA TwoBytes ==
    ASSUME NEW v \in Nat, v <= 65535
    PROVE  /\ v \div 256 \in Byte /\ v % 256 \in Byte
           /\ (v \div 256) * 256 + (v % 256) = v
  BY DEF Byte

(* Two 12-bit fields in three bytes, a nibble of each in the middle one.      *)
LEMMA SharedNibbles ==
    ASSUME NEW v \in Nat, NEW w \in Nat, v <= 4095, w <= 4095
    PROVE  LET m == (v % 16) * 16 + w \div 256
           IN  /\ v \div 16 \in Byte /\ m \in Byte /\ w % 256 \in Byte
               /\ (v \div 16) * 16 + m \div 16 = v
               /\ (m % 16) * 256 + (w % 256) = w
  <1> DEFINE m == (v % 16) * 16 + w \div 256
  <1>1. /\ v % 16 \in 0 .. 15 /\ w \div 256 \in 0 .. 15 /\ v \div 16 \in Byte
        /\ w % 256 \in Byte
    <2>1. v % 16 \in 0 .. 15 /\ v \div 16 \in Byte
      BY DEF Byte
    <2>2. w % 256 \in Byte /\ w \div 256 \in 0 .. 15
      BY DEF Byte
    <2> QED
      BY <2>1, <2>2
  <1>2. m \in Byte /\ m \div 16 = v % 16 /\ m % 16 = w \div 256
    BY <1>1 DEF Byte
  <1> QED
    BY <1>1, <1>2

(* Three bits of the mode, 12 of kp and 9 of kd in three bytes.               *)
LEMMA EncosGains ==
    ASSUME NEW v \in Nat, NEW w \in Nat, v <= 4095, w <= 511
    PROVE  LET m == (v % 128) * 2 + w \div 256
           IN  /\ v \div 128 \in 0 .. 31 /\ m \in Byte /\ w % 256 \in Byte
               /\ (v \div 128) \div 32 = 0
               /\ ((v \div 128) % 32) * 128 + m \div 2 = v
               /\ (m % 2) * 256 + (w % 256) = w
  <1> DEFINE m == (v % 128) * 2 + w \div 256
             h == v \div 128
  <1>1. v % 128 \in 0 .. 127 /\ w \div 256 \in 0 .. 1 /\ h \in 0 .. 31
        /\ w % 256 \in Byte /\ h * 128 + (v % 128) = v /\ (w \div 256) * 256 + (w % 256) = w
    BY DEF Byte
  <1>2. m \in Byte /\ m \div 2 = v % 128 /\ m % 2 = w \div 256
    BY <1>1 DEF Byte
  <1>3. h \div 32 = 0 /\ h % 32 = h
    BY <1>1 DEF Byte
  <1> QED
    BY <1>1, <1>2, <1>3

(* The codes of a request: in their fields, and where they stand for it.      *)
CodesOf(c, request) ==
    /\ c \in [Fields -> Nat]
    /\ \A f \in Fields :
        /\ c[f] <= Full(f)
        /\ request[f] >= RangeOf(f)[2] => c[f] = Full(f)
        /\ request[f] < RangeOf(f)[2] => c[f] < Full(f)
        /\ request[f] <= RangeOf(f)[1] => c[f] = 0
        /\ RangeOf(f)[1] < request[f] /\ request[f] < RangeOf(f)[2] =>
             Near(c[f], request[f], RangeOf(f), f)

(* send_cmd_packed() clamps before it encodes, so the codes are in their      *)
(* fields.                                                                    *)
LEMMA RequestCodes ==
    ASSUME kind \in Kinds, NEW request \in [Fields -> Int],
           \A f \in Fields : RangeOf(f) \in Int \X Int /\ RangeOf(f)[1] < RangeOf(f)[2]
    PROVE  CodesOf([f \in Fields |-> Code(request, f)], request)
  <1>1. ASSUME NEW f \in Fields
        PROVE  LET c == Code(request, f)
               IN /\ c \in Nat /\ c <= Full(f)
                  /\ request[f] >= RangeOf(f)[2] => c = Full(f)
                  /\ request[f] < RangeOf(f)[2] => c < Full(f)
                  /\ request[f] <= RangeOf(f)[1] => c = 0
                  /\ RangeOf(f)[1] < request[f] /\ request[f] < RangeOf(f)[2] =>
                       Near(c, request[f], RangeOf(f), f)
    <2>1. PICK lo \in Int, hi \in Int : RangeOf(f) = <<lo, hi>> /\ lo < hi
      BY <1>1
    <2>2. Full(f) \in Nat \ {0}
      BY <1>1, Widths
    <2> DEFINE x == Clamped(request[f], <<lo, hi>>)
               y == request[f]
    <2>3. y \in Int
      BY <1>1
    <2>4. /\ x \in lo .. hi /\ (y >= hi => x = hi) /\ (y <= lo => x = lo)
          /\ (lo < y /\ y < hi => x = y) /\ (y < hi => x < hi)
      BY <2>1, <2>3 DEF Clamped
    <2>5. Code(request, f) = float_to_uint(x, <<lo, hi>>, f)
      BY <2>1 DEF Code
    <2> HIDE DEF x
    <2>6. /\ float_to_uint(x, <<lo, hi>>, f) \in 0 .. Full(f)
          /\ Near(float_to_uint(x, <<lo, hi>>, f), x, <<lo, hi>>, f)
          /\ x = lo => float_to_uint(x, <<lo, hi>>, f) = 0
          /\ x = hi => float_to_uint(x, <<lo, hi>>, f) = Full(f)
          /\ x < hi => float_to_uint(x, <<lo, hi>>, f) < Full(f)
      BY <2>1, <2>2, <2>4, Coded
    <2> DEFINE c == float_to_uint(x, <<lo, hi>>, f)
    <2>7. /\ c \in 0 .. Full(f) /\ (x = lo => c = 0) /\ (x = hi => c = Full(f))
          /\ (x < hi => c < Full(f)) /\ Near(c, x, <<lo, hi>>, f)
      BY <2>6
    <2> HIDE DEF c
    <2> QED
      BY <2>1, <2>2, <2>3, <2>4, <2>5, <2>7 DEF c
  <1> QED
    BY <1>1 DEF CodesOf

(* A DM servo reads the codes back out of the eight bytes, and takes them for *)
(* an instruction only when every field but the torque is full.               *)
LEMMA DmCommand ==
    ASSUME kind = "dm", NEW c \in [Fields -> Nat], \A f \in Fields : c[f] <= Full(f),
           \E f \in Fields \ {"tor"} : c[f] < Full(f)
    PROVE  LET b == [i \in 1 .. 8 |-> DmBytes(c)[i] % 256]
           IN  /\ ~Instruction(b)
               /\ \A f \in Fields : Decoded(b)[f] = c[f]
  <1> DEFINE vk == (c.vel % 16) * 16 + c.kp \div 256
             dt == (c.kd % 16) * 16 + c.tor \div 256
             b == [i \in 1 .. 8 |-> DmBytes(c)[i] % 256]
  <1>0. /\ Full("pos") = 65535 /\ Full("vel") = 4095 /\ Full("kp") = 4095
        /\ Full("kd") = 4095 /\ Full("tor") = 4095
    BY Widths DEF Fields, Kinds
  <1>1. /\ c.pos <= 65535 /\ c.vel <= 4095 /\ c.kp <= 4095
        /\ c.kd <= 4095 /\ c.tor <= 4095
        /\ c.pos \in Nat /\ c.vel \in Nat /\ c.kp \in Nat /\ c.kd \in Nat /\ c.tor \in Nat
        /\ \/ c.pos < 65535 \/ c.vel < 4095 \/ c.kp < 4095 \/ c.kd < 4095
    BY <1>0 DEF Fields
  <1>2. /\ c.pos \div 256 \in Byte /\ c.pos % 256 \in Byte
        /\ (c.pos \div 256) * 256 + (c.pos % 256) = c.pos
    BY <1>1, TwoBytes, SMTT(30)
  <1>3. /\ c.vel \div 16 \in Byte /\ vk \in Byte /\ c.kp % 256 \in Byte
        /\ (c.vel \div 16) * 16 + vk \div 16 = c.vel
        /\ (vk % 16) * 256 + (c.kp % 256) = c.kp
    BY <1>1, SharedNibbles, SMTT(30)
  <1>4. /\ c.kd \div 16 \in Byte /\ dt \in Byte /\ c.tor % 256 \in Byte
        /\ (c.kd \div 16) * 16 + dt \div 16 = c.kd
        /\ (dt % 16) * 256 + (c.tor % 256) = c.tor
    BY <1>1, SharedNibbles, SMTT(30)
  <1>5. DmBytes(c) = <<c.pos \div 256, c.pos % 256, c.vel \div 16, vk, c.kp % 256,
                       c.kd \div 16, dt, c.tor % 256>>
    BY DEF DmBytes
  <1> HIDE DEF vk, dt
  <1>6. \A n \in Byte : n % 256 = n
    BY DEF Byte
  <1>7. /\ b[1] = c.pos \div 256 /\ b[2] = c.pos % 256 /\ b[3] = c.vel \div 16 /\ b[4] = vk
        /\ b[5] = c.kp % 256 /\ b[6] = c.kd \div 16 /\ b[7] = dt /\ b[8] = c.tor % 256
    BY <1>2, <1>3, <1>4, <1>5, <1>6
  <1> HIDE DEF b
  <1>8. \A f \in Fields : Decoded(b)[f] = c[f]
    BY <1>2, <1>3, <1>4, <1>7 DEF Decoded, Fields
  <1>9. ~(\A i \in 1 .. 7 : b[i] = 255)
    <2> SUFFICES ASSUME \A i \in 1 .. 7 : b[i] = 255 PROVE FALSE
      OBVIOUS
    <2>1. /\ b[1] = 255 /\ b[2] = 255 /\ b[3] = 255 /\ b[4] = 255 /\ b[5] = 255 /\ b[6] = 255
          /\ b[7] = 255
      OBVIOUS
    <2>2. c.pos = 65535 /\ c.vel = 4095 /\ c.kp = 4095 /\ c.kd = 4095
      BY <1>2, <1>3, <1>4, <1>7, <2>1
    <2> QED
      BY <1>1, <2>2
  <1> QED
    BY <1>8, <1>9 DEF b, Instruction

(* So does an ENCOS servo, for which the bytes are a command of MIT mode.     *)
LEMMA EncosCommand ==
    ASSUME kind = "encos", NEW c \in [Fields -> Nat], \A f \in Fields : c[f] <= Full(f)
    PROVE  LET b == [i \in 1 .. 8 |-> EncosBytes(c)[i] % 256]
           IN  /\ b[1] \div 32 = 0
               /\ \A f \in Fields : Decoded(b)[f] = c[f]
  <1> DEFINE kk == (c.kp % 128) * 2 + c.kd \div 256
             vt == (c.vel % 16) * 16 + c.tor \div 256
             b == [i \in 1 .. 8 |-> EncosBytes(c)[i] % 256]
  <1>0. /\ Full("pos") = 65535 /\ Full("vel") = 4095 /\ Full("kp") = 4095
        /\ Full("kd") = 511 /\ Full("tor") = 4095
    BY Widths DEF Fields, Kinds
  <1>1. /\ c.pos <= 65535 /\ c.vel <= 4095 /\ c.kp <= 4095
        /\ c.kd <= 511 /\ c.tor <= 4095
        /\ c.pos \in Nat /\ c.vel \in Nat /\ c.kp \in Nat /\ c.kd \in Nat /\ c.tor \in Nat
    BY <1>0 DEF Fields
  <1>2. /\ c.pos \div 256 \in Byte /\ c.pos % 256 \in Byte
        /\ (c.pos \div 256) * 256 + (c.pos % 256) = c.pos
    BY <1>1, TwoBytes, SMTT(30)
  <1>3. /\ c.kp \div 128 \in 0 .. 31 /\ kk \in Byte /\ c.kd % 256 \in Byte
        /\ (c.kp \div 128) \div 32 = 0
        /\ ((c.kp \div 128) % 32) * 128 + kk \div 2 = c.kp
        /\ (kk % 2) * 256 + (c.kd % 256) = c.kd
    BY <1>1, EncosGains, SMTT(30)
  <1>4. /\ c.vel \div 16 \in Byte /\ vt \in Byte /\ c.tor % 256 \in Byte
        /\ (c.vel \div 16) * 16 + vt \div 16 = c.vel
        /\ (vt % 16) * 256 + (c.tor % 256) = c.tor
    BY <1>1, SharedNibbles, SMTT(30)
  <1>5. EncosBytes(c) = <<c.kp \div 128, kk, c.kd % 256, c.pos \div 256, c.pos % 256,
                          c.vel \div 16, vt, c.tor % 256>>
    BY DEF EncosBytes
  <1> HIDE DEF kk, vt
  <1>6. \A n \in Byte : n % 256 = n
    BY DEF Byte
  <1>7. /\ b[1] = c.kp \div 128 /\ b[2] = kk /\ b[3] = c.kd % 256 /\ b[4] = c.pos \div 256
        /\ b[5] = c.pos % 256 /\ b[6] = c.vel \div 16 /\ b[7] = vt /\ b[8] = c.tor % 256
    BY <1>2, <1>3, <1>4, <1>5, <1>6
  <1> HIDE DEF b
  <1>8. \A f \in Fields : Decoded(b)[f] = c[f]
    BY <1>2, <1>3, <1>4, <1>7 DEF Decoded, Fields
  <1> QED
    BY <1>3, <1>7, <1>8 DEF b

(* The ranges the codec works with.                                           *)
RangeTypes ==
    /\ kind \in Kinds
    /\ codec \in [{"vel", "tor"} -> Int \X Int]
    /\ \A f \in {"vel", "tor"} : codec[f][1] < codec[f][2]
    /\ motorRange \in [{"vel", "tor"} -> Int \X Int]
    /\ kind = "encos" => motorRange \in [{"vel", "tor"} -> Int16s \X Int16s]

(* They are in order.                                                        *)
LEMMA RangesInOrder ==
    ASSUME RangeTypes, NEW f \in Fields
    PROVE  RangeOf(f) \in Int \X Int /\ RangeOf(f)[1] < RangeOf(f)[2]
  BY CodecAssumption DEF RangeTypes, RangeOf, Fields, Kinds

(* What the servo makes of a command frame.                                   *)
Obeys(understood, request) ==
    /\ understood[1] = "command"
    /\ \A f \in Fields :
        CASE request[f] >= RangeOf(f)[2] -> understood[2][f] = Full(f)
          [] request[f] <= RangeOf(f)[1] -> understood[2][f] = 0
          [] OTHER -> Near(understood[2][f], request[f], RangeOf(f), f)

(* The command of a request that is not everywhere at its top is a command,   *)
(* and every field of it is the request.                                      *)
LEMMA CommandsAreObeyed ==
    ASSUME RangeTypes, NEW request \in [Fields -> Int],
           ~(kind = "dm" /\ \A f \in Fields \ {"tor"} : request[f] >= RangeOf(f)[2])
    PROVE  Obeys(Understood(CommandFrame(request)), request)
  <1> DEFINE c == [f \in Fields |-> Code(request, f)]
             b == CommandFrame(request)
  <1>1. kind \in Kinds /\ \A f \in Fields : /\ RangeOf(f) \in Int \X Int
                                            /\ RangeOf(f)[1] < RangeOf(f)[2]
    BY RangesInOrder DEF RangeTypes
  <1>2. CodesOf(c, request)
    BY <1>1, RequestCodes
  <1>3. b = [i \in 1 .. 8 |-> (IF kind = "dm" THEN DmBytes(c) ELSE EncosBytes(c))[i] % 256]
    BY DEF CommandFrame
  <1> HIDE DEF c, b
  <1>4. /\ c \in [Fields -> Nat] /\ \A f \in Fields : c[f] <= Full(f)
        /\ \A f \in Fields : request[f] < RangeOf(f)[2] => c[f] < Full(f)
    BY <1>2 DEF CodesOf
  <1>5. \A f \in Fields : RangeOf(f)[1] \in Int /\ RangeOf(f)[2] \in Int /\ request[f] \in Int
    BY <1>1
  <1>6. Understood(b) = <<"command", Decoded(b)>> /\ \A f \in Fields : Decoded(b)[f] = c[f]
    <2>1. CASE kind = "dm"
      <3>1. PICK f \in Fields \ {"tor"} : ~(request[f] >= RangeOf(f)[2])
        BY <2>1
      <3>2. c[f] < Full(f)
        BY <1>4, <1>5, <3>1
      <3>3. b = [i \in 1 .. 8 |-> DmBytes(c)[i] % 256]
        BY <1>3, <2>1
      <3>4. ~Instruction(b) /\ \A g \in Fields : Decoded(b)[g] = c[g]
        BY <1>4, <2>1, <3>1, <3>2, <3>3, DmCommand
      <3> QED
        BY <2>1, <3>4 DEF Understood
    <2>2. CASE kind = "encos"
      <3>1. b = [i \in 1 .. 8 |-> EncosBytes(c)[i] % 256]
        BY <1>3, <2>2
      <3>2. b[1] \div 32 = 0 /\ \A g \in Fields : Decoded(b)[g] = c[g]
        BY <1>4, <2>2, <3>1, EncosCommand
      <3> QED
        BY <2>2, <3>2 DEF Understood, Instruction
    <2> QED
      BY <1>1, <2>1, <2>2 DEF Kinds
  <1>7. ASSUME NEW f \in Fields
        PROVE  CASE request[f] >= RangeOf(f)[2] -> c[f] = Full(f)
                 [] request[f] <= RangeOf(f)[1] -> c[f] = 0
                 [] OTHER -> Near(c[f], request[f], RangeOf(f), f)
    <2>1. /\ request[f] >= RangeOf(f)[2] => c[f] = Full(f)
          /\ request[f] <= RangeOf(f)[1] => c[f] = 0
          /\ RangeOf(f)[1] < request[f] /\ request[f] < RangeOf(f)[2] =>
               Near(c[f], request[f], RangeOf(f), f)
      BY <1>2, <1>7 DEF CodesOf
    <2> DEFINE lo == RangeOf(f)[1]
               hi == RangeOf(f)[2]
               close == Near(c[f], request[f], RangeOf(f), f)
    <2>2. lo \in Int /\ hi \in Int /\ request[f] \in Int /\ lo < hi
      BY <1>1, <1>5, <1>7
    <2>3. /\ request[f] >= hi => c[f] = Full(f)
          /\ request[f] <= lo => c[f] = 0
          /\ lo < request[f] /\ request[f] < hi => close
      BY <2>1
    <2> HIDE DEF lo, hi, close
    <2>4. (CASE request[f] >= hi -> c[f] = Full(f)
             [] request[f] <= lo -> c[f] = 0
             [] OTHER -> close)
      BY <2>2, <2>3
    <2> QED
      BY <2>4 DEF lo, hi, close
  <1> QED
    BY <1>6, <1>7 DEF Obeys, b

(* The status frame: the host reads the codes the servo put in.               *)
LEMMA StatusIsRead ==
    ASSUME RangeTypes, NEW m \in [Measured -> Int], Measurable(m), NEW f \in Measured
    PROVE  Near(parse_status(StatusFrame(m))[f], m[f], MotorRangeOf(f), f)
  <1>1. ASSUME NEW g \in Measured
        PROVE  /\ float_to_uint(m[g], MotorRangeOf(g), g) \in Nat
               /\ float_to_uint(m[g], MotorRangeOf(g), g) <= Full(g)
               /\ Near(float_to_uint(m[g], MotorRangeOf(g), g), m[g], MotorRangeOf(g), g)
    <2>1. MotorRangeOf(g) \in Int \X Int
      BY <1>1, CodecAssumption DEF RangeTypes, MotorRangeOf, Measured, Fields, Kinds
    <2>2. PICK lo \in Int, hi \in Int : MotorRangeOf(g) = <<lo, hi>>
      BY <2>1
    <2>3. lo < hi /\ m[g] \in lo .. hi
      BY <1>1, <2>2 DEF Measurable
    <2>4. Full(g) \in Nat \ {0}
      BY <1>1, Widths DEF RangeTypes, Measured, Fields
    <2> QED
      BY <2>2, <2>3, <2>4, Coded
  <1> DEFINE c == [g \in Measured |-> float_to_uint(m[g], MotorRangeOf(g), g)]
             vt == (c.vel % 16) * 16 + c.tor \div 256
             b == StatusFrame(m)
  <1>2. /\ c.pos \in Nat /\ c.vel \in Nat /\ c.tor \in Nat
        /\ c.pos <= 65535 /\ c.vel <= 4095 /\ c.tor <= 4095
    <2>1. Full("pos") = 65535 /\ Full("vel") = 4095 /\ Full("tor") = 4095
      BY Widths DEF RangeTypes, Fields
    <2> QED
      BY <1>1, <2>1 DEF Measured
  <1>3. \A g \in Measured : Near(c[g], m[g], MotorRangeOf(g), g)
    BY <1>1
  <1>4. /\ b[2] = c.pos \div 256 /\ b[3] = c.pos % 256 /\ b[4] = c.vel \div 16 /\ b[5] = vt
        /\ b[6] = c.tor % 256
    BY DEF StatusFrame, Measured
  <1> HIDE DEF c, b
  <1>5. (c.pos \div 256) * 256 + (c.pos % 256) = c.pos
    BY <1>2, TwoBytes, SMTT(30)
  <1>6. /\ c.vel \div 16 \in Byte /\ vt \in Byte /\ c.tor % 256 \in Byte
        /\ (c.vel \div 16) * 16 + vt \div 16 = c.vel
        /\ (vt % 16) * 256 + (c.tor % 256) = c.tor
    <2> DEFINE v == c.vel
               w == c.tor
               n == (v % 16) * 16 + w \div 256
    <2>1. v \in Nat /\ w \in Nat /\ v <= 4095 /\ w <= 4095
      BY <1>2
    <2> HIDE DEF v, w
    <2>2. /\ v \div 16 \in Byte /\ n \in Byte /\ w % 256 \in Byte
          /\ (v \div 16) * 16 + n \div 16 = v /\ (n % 16) * 256 + (w % 256) = w
      BY <2>1, SharedNibbles, SMTT(30)
    <2> QED
      BY <2>2 DEF v, w
  <1> HIDE DEF vt
  <1>7. \A g \in Measured : parse_status(b)[g] = c[g]
    BY <1>4, <1>5, <1>6 DEF parse_status, Measured
  <1> QED
    BY <1>3, <1>7 DEF b

(* A register gets the value that was sent to it.                             *)
LEMMA RegisterIsRead ==
    ASSUME NEW v \in RegisterValues
    PROVE  RegisterValue(RegisterFrame(v)) = v
  <1>1. v \in Nat /\ v \div 16777216 <= 255
    BY CodecAssumption
  <1> DEFINE b == RegisterFrame(v)
             w == v \div 256
             x == v \div 65536
             y == v \div 16777216
  <1>2. RegisterBytes(v) = <<v % 256, w % 256, x % 256, y>>
    BY DEF RegisterBytes
  <1>3. b[5] = v % 256 /\ b[6] = w % 256 /\ b[7] = x % 256 /\ b[8] = y
    <2> HIDE DEF w, x, y
    <2> QED
      BY <1>2 DEF RegisterFrame
  <1>4. x = w \div 256 /\ y = x \div 256 /\ w \in Nat /\ x \in Nat /\ y \in Nat
    BY <1>1
  <1>5. v = 256 * w + (v % 256) /\ w = 256 * x + (w % 256) /\ x = 256 * y + (x % 256)
    BY <1>1, <1>4
  <1> HIDE DEF b, w, x, y
  <1>6. RegisterValue(b) = (v % 256) + 256 * (w % 256) + 65536 * (x % 256) + 16777216 * y
    BY <1>3 DEF RegisterValue
  <1>7. v % 256 \in Int /\ w % 256 \in Int /\ x % 256 \in Int
    BY <1>1, <1>4
  <1> QED
    BY <1>1, <1>4, <1>5, <1>6, <1>7 DEF b

-----------------------------------------------------------------------------
(***************************************************************************)
(* The queries.                                                            *)
(***************************************************************************)

(* The frames a read can return, and where the protocol is.                   *)
Frames == {RangeReply("spd"), RangeReply("tor")} \cup Foreign

QueryInv ==
    /\ query \in {"spd", "tor", "done"} /\ awaiting \in BOOLEAN
    /\ awaiting => query # "done"
    /\ kind = "dm" => query = "done" /\ motorRange.vel = codec.vel
    /\ answers \subseteq Frames /\ socket \in Seq(Frames)

(* As long as nothing was lost and nothing foreign came, the first answer a   *)
(* read returns is the one to the velocity query.                             *)
LuckyInv ==
    lost = 0 /\ chatter = 0 =>
        /\ query = "spd" /\ ~awaiting => answers = {} /\ socket = <<>>
        /\ query = "spd" /\ awaiting =>
             \/ answers = {RangeReply("spd")} /\ socket = <<>>
             \/ answers = {} /\ socket = <<RangeReply("spd")>>
        /\ query # "spd" /\ motorRange.vel[1] < motorRange.vel[2] =>
             codec.vel = motorRange.vel

(* What was said was said with the scales that hold now.                      *)
TalkInv == requested # <<>> \/ measured # <<>> => query = "done"

CodecInv ==
    /\ RangeTypes /\ QueryInv /\ LuckyInv /\ TalkInv
    /\ lost \in {0, 1} /\ chatter \in Nat
    /\ reported \in [{"vel", "tor"} -> {<<>>, motorRange.vel, motorRange.tor}]
    /\ RangeIsOwn /\ MotorObeys /\ TelemetryTrue

(* The two bytes of an int16 are read back.                                   *)
LEMMA WordIsRead ==
    ASSUME NEW v \in Int16s
    PROVE  Int16(Word(v)[1], Word(v)[2]) = v
  <1> DEFINE u == v % 65536
  <1>1. v \in Int /\ -32768 <= v /\ v <= 32767
    BY DEF Int16s
  <1>2. u \in Nat /\ u <= 65535 /\ (v >= 0 => u = v) /\ (v < 0 => u = v + 65536)
    BY <1>1
  <1>3. v % 256 = u % 256
    BY <1>1
  <1>4. Word(v)[1] = u \div 256 /\ Word(v)[2] = u % 256
    BY <1>3 DEF Word
  <1> HIDE DEF u
  <1>5. (u \div 256) * 256 + (u % 256) = u
    BY <1>2
  <1> QED
    BY <1>1, <1>2, <1>4, <1>5 DEF Int16

(* The six bytes of an answer.                                                *)
LEMMA ReplyBytes ==
    ASSUME NEW p \in {"spd", "tor"}
    PROVE  /\ Len(RangeReply(p).data) = 6 /\ RangeReply(p).data[1] = 160
           /\ RangeReply(p).data[2] = QueryCode(p)
           /\ RangeReply(p).data[3] = Word(motorRange[FieldOf(p)][1])[1]
           /\ RangeReply(p).data[4] = Word(motorRange[FieldOf(p)][1])[2]
           /\ RangeReply(p).data[5] = Word(motorRange[FieldOf(p)][2])[1]
           /\ RangeReply(p).data[6] = Word(motorRange[FieldOf(p)][2])[2]
  <1> DEFINE a == motorRange[FieldOf(p)][1]
             z == motorRange[FieldOf(p)][2]
  <1>1. /\ Word(a) = <<(a % 65536) \div 256, a % 256>>
        /\ Word(z) = <<(z % 65536) \div 256, z % 256>>
    BY DEF Word
  <1>2. RangeReply(p).data = <<5 * 32, QueryCode(p)>> \o Word(a) \o Word(z)
    BY DEF RangeReply
  <1> HIDE DEF a, z
  <1> DEFINE ah == (a % 65536) \div 256
             al == a % 256
             zh == (z % 65536) \div 256
             zl == z % 256
  <1>3. Word(a) = <<ah, al>> /\ Word(z) = <<zh, zl>>
    BY <1>1
  <1> HIDE DEF ah, al, zh, zl
  <1> DEFINE S == {160, QueryCode(p), ah, al, zh, zl}
             head == <<5 * 32, QueryCode(p)>> \o <<ah, al>>
             tail == <<zh, zl>>
  <1>4. /\ head \in Seq(S) /\ Len(head) = 4 /\ head[1] = 160
        /\ head[2] = QueryCode(p) /\ head[3] = ah /\ head[4] = al
    OBVIOUS
  <1>5. tail \in Seq(S) /\ Len(tail) = 2 /\ tail[1] = zh /\ tail[2] = zl
    OBVIOUS
  <1>6. RangeReply(p).data = head \o tail
    BY <1>2, <1>3
  <1> HIDE DEF head, tail, S
  <1>7. /\ Len(head \o tail) = Len(head) + Len(tail)
        /\ \A i \in 1 .. Len(head) + Len(tail) :
             (head \o tail)[i] = IF i <= Len(head) THEN head[i] ELSE tail[i - Len(head)]
    <2>1. head \in Seq(S) /\ tail \in Seq(S)
      BY <1>4, <1>5
    <2> QED
      BY <2>1, ConcatProperties
  <1> DEFINE d == head \o tail
  <1>8. \A i \in 1 .. 6 : d[i] = IF i <= 4 THEN head[i] ELSE tail[i - 4]
    <2>1. Len(head) = 4 /\ Len(tail) = 2
      BY <1>4, <1>5
    <2>2. \A i \in 1 .. 4 + 2 : d[i] = IF i <= 4 THEN head[i] ELSE tail[i - 4]
      BY <1>7, <2>1, Zenon
    <2> HIDE DEF d
    <2> QED
      BY <2>2
  <1> HIDE DEF d
  <1>9. /\ d[1] = head[1] /\ d[2] = head[2] /\ d[3] = head[3] /\ d[4] = head[4]
        /\ d[5] = tail[1] /\ d[6] = tail[2]
    BY <1>8
  <1>10. /\ RangeReply(p).data[1] = 160 /\ RangeReply(p).data[2] = QueryCode(p)
         /\ RangeReply(p).data[3] = ah /\ RangeReply(p).data[4] = al
         /\ RangeReply(p).data[5] = zh /\ RangeReply(p).data[6] = zl
    BY <1>4, <1>5, <1>6, <1>9 DEF d
  <1>11. Len(RangeReply(p).data) = 6
    BY <1>4, <1>5, <1>6, <1>7
  <1> QED
    BY <1>3, <1>10, <1>11 DEF a, z

(* The parser accepts the answer to its own query.                            *)
LEMMA ReplyIsAccepted ==
    ASSUME NEW q \in {"spd", "tor"}
    PROVE  parse_mit_range_reply_encos_servo(RangeReply(q), q)
  <1>1. RangeReply(q).own
    BY DEF RangeReply
  <1> QED
    BY <1>1, ReplyBytes DEF parse_mit_range_reply_encos_servo

(* Of the frames that can come, the parser of a query accepts the answer to   *)
(* it and nothing else, and reads the firmware's range out of it.             *)
LEMMA ReplyIsRead ==
    ASSUME RangeTypes, kind = "encos", NEW frame \in Frames, NEW q \in {"spd", "tor"},
           parse_mit_range_reply_encos_servo(frame, q)
    PROVE  ReplyRange(frame) = motorRange[FieldOf(q)]
  <1> DEFINE r == motorRange[FieldOf(q)]
  <1>1. FieldOf(q) \in {"vel", "tor"}
    BY DEF FieldOf
  <1>2. r \in Int16s \X Int16s /\ r = <<r[1], r[2]>> /\ r[1] \in Int16s /\ r[2] \in Int16s
    BY <1>1 DEF RangeTypes
  <1>3. ASSUME NEW p \in {"spd", "tor"}
        PROVE  /\ RangeReply(p).data[2] = QueryCode(p)
               /\ RangeReply(p).data[3] = Word(motorRange[FieldOf(p)][1])[1]
               /\ RangeReply(p).data[4] = Word(motorRange[FieldOf(p)][1])[2]
               /\ RangeReply(p).data[5] = Word(motorRange[FieldOf(p)][2])[1]
               /\ RangeReply(p).data[6] = Word(motorRange[FieldOf(p)][2])[2]
    BY <1>3, ReplyBytes
  <1>4. frame = RangeReply(q)
    <2>1. frame \notin Foreign
      <3>1. /\ frame.own /\ frame.data[1] \div 32 = 5
        BY DEF parse_mit_range_reply_encos_servo
      <3>2. ASSUME frame = [own |-> FALSE, data |-> <<5 * 32, 26, 0, 0, 0, 1>>] PROVE FALSE
        BY <3>1, <3>2
      <3>3. ASSUME frame = [own |-> TRUE, data |-> <<32, 26, 0, 0, 0, 1, 0, 0>>] PROVE FALSE
        BY <3>1, <3>3
      <3> QED
        BY <3>2, <3>3 DEF Foreign
    <2>2. PICK p \in {"spd", "tor"} : frame = RangeReply(p)
      BY <2>1 DEF Frames
    <2>3. QueryCode(p) = QueryCode(q)
      BY <1>3, <2>2 DEF parse_mit_range_reply_encos_servo
    <2>4. p = q
      BY <2>2, <2>3 DEF QueryCode
    <2> QED
      BY <2>2, <2>4
  <1>5. ReplyRange(frame) =
          <<Int16(Word(r[1])[1], Word(r[1])[2]), Int16(Word(r[2])[1], Word(r[2])[2])>>
    BY <1>3, <1>4 DEF ReplyRange
  <1> HIDE DEF r
  <1>6. ReplyRange(frame) = <<r[1], r[2]>>
    BY <1>2, <1>5, WordIsRead
  <1> QED
    BY <1>2, <1>6 DEF r

(* The initial state.                                                         *)
LEMMA CodecStarts == CodecInit => CodecInv
  <1> SUFFICES ASSUME CodecInit PROVE CodecInv
    OBVIOUS
  <1>1. kind \in Kinds /\ motorRange \in MotorRanges(kind)
        /\ codec = [vel |-> CompiledRange[kind].vel, tor |-> CompiledRange[kind].tor]
        /\ reported = [vel |-> <<>>, tor |-> <<>>]
    BY DEF CodecInit
  <1>2. CompiledRange[kind] \in [Fields -> Int \X Int]
        /\ \A f \in Fields : CompiledRange[kind][f][1] < CompiledRange[kind][f][2]
    BY <1>1, CodecAssumption
  <1>3. codec \in [{"vel", "tor"} -> Int \X Int]
        /\ \A f \in {"vel", "tor"} : codec[f][1] < codec[f][2]
    BY <1>1, <1>2 DEF Fields
  <1>4. kind = "encos" => motorRange \in [{"vel", "tor"} -> Int16s \X Int16s]
    BY <1>1, CodecAssumption DEF MotorRanges
  <1>5. kind = "dm" => /\ motorRange = [vel |-> CompiledRange.dm.vel, tor |-> CompiledRange.dm.tor]
                       /\ motorRange.vel = codec.vel
    BY <1>1 DEF MotorRanges
  <1>6. motorRange \in [{"vel", "tor"} -> Int \X Int]
    <2>1. CASE kind = "dm"
      BY <1>2, <1>5, <2>1 DEF Fields
    <2>2. CASE kind = "encos"
      BY <1>4, <2>2 DEF Int16s
    <2> QED
      BY <1>1, <2>1, <2>2 DEF Kinds
  <1>7. RangeTypes
    BY <1>1, <1>3, <1>4, <1>6 DEF RangeTypes
  <1>8. QueryInv
    <2>1. <<>> \in Seq(Frames)
      OBVIOUS
    <2> QED
      BY <1>1, <1>5, <2>1 DEF CodecInit, QueryInv, Kinds
  <1>9. LuckyInv
    BY <1>1, <1>5 DEF CodecInit, LuckyInv, Kinds
  <1>10. TalkInv /\ MotorObeys /\ TelemetryTrue /\ lost \in {0, 1} /\ chatter \in Nat
    BY DEF CodecInit, TalkInv, MotorObeys, TelemetryTrue
  <1>11. RangeIsOwn /\ reported \in [{"vel", "tor"} -> {<<>>, motorRange.vel, motorRange.tor}]
    BY <1>1 DEF RangeIsOwn
  <1> QED
    BY <1>7, <1>8, <1>9, <1>10, <1>11 DEF CodecInv

(* What was said stays true while the ranges stay what they are, and no range *)
(* changes once something was said.                                           *)
LEMMA TalkStays ==
    ASSUME CodecInv, UNCHANGED <<kind, motorRange, talkVars>>,
           codec' = codec \/ query # "done"
    PROVE  MotorObeys' /\ TelemetryTrue'
  <1>1. /\ kind' = kind /\ motorRange' = motorRange /\ requested' = requested
        /\ obeyed' = obeyed /\ measured' = measured /\ seen' = seen /\ written' = written
    BY DEF talkVars
  <1>2. CASE codec' = codec
    <2>1. MotorObeys'
      BY <1>1, <1>2 DEF CodecInv, MotorObeys, AtTop, RangeOf, Full, Bits, Near
    <2>2. TelemetryTrue'
      <3>1. Ignored(StatusFrame(measured))' = Ignored(StatusFrame(measured))
        BY <1>1 DEF Ignored, StatusFrame, float_to_uint, MotorRangeOf, Full, Bits
      <3> QED
        BY <1>1, <1>2, <3>1
           DEF CodecInv, TelemetryTrue, RangeOf, MotorRangeOf, Full, Bits, Near
    <2> QED
      BY <2>1, <2>2
  <1>3. CASE query # "done"
    BY <1>1, <1>3 DEF CodecInv, TalkInv, MotorObeys, TelemetryTrue
  <1> QED
    BY <1>2, <1>3

(* The queries and their answers on the way.                                  *)
LEMMA QueriesKeep ==
    ASSUME CodecInv, SendQuery \/ SendFails \/ Arrive \/ Lose \/ Chatter \/ ReadTimesOut
    PROVE  CodecInv'
  <1>1. /\ UNCHANGED <<kind, motorRange, talkVars>> /\ codec' = codec /\ reported' = reported
        /\ kind' = kind /\ motorRange' = motorRange
        /\ requested' = requested /\ measured' = measured
    BY DEF SendQuery, SendFails, Arrive, Lose, Chatter, ReadTimesOut, talkVars
  <1>2. MotorObeys' /\ TelemetryTrue'
    BY <1>1, TalkStays
  <1>3. RangeTypes' /\ RangeIsOwn'
        /\ reported' \in [{"vel", "tor"} -> {<<>>, motorRange'.vel, motorRange'.tor}]
    BY <1>1 DEF CodecInv, RangeTypes, RangeIsOwn
  <1>4. Frames' = Frames /\ RangeReply("spd")' = RangeReply("spd")
        /\ RangeReply("tor")' = RangeReply("tor")
    BY <1>1 DEF Frames, RangeReply
  <1>5. lost' \in {0, 1} /\ chatter' \in Nat
    BY DEF CodecInv, SendQuery, SendFails, Arrive, Lose, Chatter, ReadTimesOut
  <1> DEFINE Spd == RangeReply("spd")
             Tor == RangeReply("tor")
  <1>6. Spd \in Frames /\ Tor \in Frames /\ Foreign \subseteq Frames
    BY DEF Frames
  <1>7. CASE SendQuery
    <2>1. /\ query \in {"spd", "tor"} /\ query' = query /\ awaiting' = TRUE /\ socket' = socket
          /\ lost' = lost /\ chatter' = chatter /\ ~awaiting
          /\ (query = "spd" => answers' = answers \cup {Spd})
          /\ (query = "tor" => answers' = answers \cup {Tor})
      BY <1>7 DEF SendQuery, CodecInv, QueryInv
    <2> HIDE DEF Spd, Tor
    <2>2. QueryInv'
      BY <1>1, <1>4, <1>6, <2>1 DEF CodecInv, QueryInv
    <2>3. LuckyInv'
      BY <1>1, <1>4, <2>1 DEF CodecInv, LuckyInv, Spd
    <2>4. TalkInv'
      BY <1>1, <2>1 DEF CodecInv, TalkInv
    <2> QED
      BY <1>2, <1>3, <1>5, <2>2, <2>3, <2>4 DEF CodecInv
  <1>8. CASE SendFails \/ ReadTimesOut
    <2>1. /\ query # "done" /\ query' \in {"tor", "done"} /\ awaiting' = FALSE
          /\ socket' = socket /\ answers' = answers /\ lost' = 1
      BY <1>8 DEF SendFails, ReadTimesOut, NextQuery, CodecInv, QueryInv
    <2>2. QueryInv'
      BY <1>1, <1>4, <2>1 DEF CodecInv, QueryInv
    <2>3. LuckyInv'
      BY <2>1 DEF LuckyInv
    <2>4. TalkInv'
      BY <1>1, <2>1 DEF CodecInv, TalkInv
    <2> QED
      BY <1>2, <1>3, <1>5, <2>2, <2>3, <2>4 DEF CodecInv
  <1>9. CASE Arrive
    <2>1. PICK frame \in answers :
             /\ answers' = answers \ {frame} /\ socket' = Append(socket, frame)
             /\ query' = query /\ awaiting' = awaiting /\ lost' = lost /\ chatter' = chatter
      BY <1>9 DEF Arrive
    <2>2. frame \in Frames /\ socket \in Seq(Frames) /\ socket' \in Seq(Frames)
      BY <2>1 DEF CodecInv, QueryInv
    <2>3. QueryInv'
      BY <1>1, <1>4, <2>1, <2>2 DEF CodecInv, QueryInv
    <2>4. LuckyInv'
      <3>1. ASSUME lost = 0, chatter = 0, query = "spd"
            PROVE  awaiting /\ answers = {Spd} /\ socket = <<>> /\ frame = Spd
        BY <2>1, <3>1 DEF CodecInv, LuckyInv, QueryInv
      <3>2. Append(<<>>, Spd) = <<Spd>>
        OBVIOUS
      <3> HIDE DEF Spd
      <3>3. ASSUME lost = 0, chatter = 0, query = "spd"
            PROVE  awaiting /\ answers' = {} /\ socket' = <<Spd>>
        BY <2>1, <3>1, <3>2, <3>3
      <3> QED
        BY <1>1, <1>4, <2>1, <3>3 DEF CodecInv, LuckyInv, Spd
    <2>5. TalkInv'
      BY <1>1, <2>1 DEF CodecInv, TalkInv
    <2> QED
      BY <1>2, <1>3, <1>5, <2>3, <2>4, <2>5 DEF CodecInv
  <1>10. CASE Lose
    <2>1. /\ answers' \subseteq answers /\ lost' = 1 /\ query' = query /\ awaiting' = awaiting
          /\ socket' = socket
      BY <1>10 DEF Lose
    <2>2. QueryInv'
      BY <1>1, <1>4, <2>1 DEF CodecInv, QueryInv
    <2>3. LuckyInv'
      BY <2>1 DEF LuckyInv
    <2>4. TalkInv'
      BY <1>1, <2>1 DEF CodecInv, TalkInv
    <2> QED
      BY <1>2, <1>3, <1>5, <2>2, <2>3, <2>4 DEF CodecInv
  <1>11. CASE Chatter
    <2>1. PICK frame \in Foreign : socket' = Append(socket, frame)
      BY <1>11 DEF Chatter
    <2>2. /\ query' = query /\ awaiting' = awaiting /\ answers' = answers
          /\ chatter' = chatter + 1 /\ chatter \in Nat
      BY <1>11 DEF Chatter, CodecInv
    <2>3. socket' \in Seq(Frames)
      BY <1>6, <2>1 DEF CodecInv, QueryInv
    <2>4. QueryInv'
      BY <1>1, <1>4, <2>2, <2>3 DEF CodecInv, QueryInv
    <2>5. LuckyInv'
      BY <2>2 DEF LuckyInv
    <2>6. TalkInv'
      BY <1>1, <2>2 DEF CodecInv, TalkInv
    <2> QED
      BY <1>2, <1>3, <1>5, <2>4, <2>5, <2>6 DEF CodecInv
  <1> QED
    BY <1>7, <1>8, <1>9, <1>10, <1>11

(* A reading of the socket: the range adopted is the firmware's own.          *)
LEMMA ReadReplyKeeps ==
    ASSUME CodecInv, ReadReply
    PROVE  CodecInv'
  <1> DEFINE f == FieldOf(query)
             frame == Head(socket)
             accepted == parse_mit_range_reply_encos_servo(frame, query)
  <1>1. /\ awaiting /\ socket # <<>> /\ query \in {"spd", "tor"} /\ kind = "encos"
        /\ query' = NextQuery /\ awaiting' = FALSE /\ socket' = Tail(socket)
        /\ kind' = kind /\ motorRange' = motorRange /\ answers' = answers
        /\ lost' = lost /\ chatter' = chatter /\ UNCHANGED talkVars
        /\ requested' = requested /\ measured' = measured
    BY DEF ReadReply, CodecInv, QueryInv, RangeTypes, Kinds, talkVars
  <1>2. f = (IF query = "spd" THEN "vel" ELSE "tor")
    BY DEF FieldOf
  <1>3. frame \in Frames /\ socket' \in Seq(Frames)
    BY <1>1 DEF CodecInv, QueryInv
  <1>4. accepted => ReplyRange(frame) = motorRange[f]
    BY <1>1, <1>3, ReplyIsRead DEF CodecInv
  <1>5. IF accepted THEN adopt_encos_mit_range(f, ReplyRange(frame))
        ELSE UNCHANGED <<reported, codec>>
    BY DEF ReadReply
  <1> DEFINE range == ReplyRange(frame)
  <1>6. \/ codec' = codec /\ reported' = reported /\ ~(accepted /\ range[1] < range[2])
        \/ /\ accepted /\ range[1] < range[2]
           /\ reported' = [reported EXCEPT ![f] = range]
           /\ codec' = IF f = "vel" THEN [codec EXCEPT !.vel = range] ELSE codec
    <2> HIDE DEF accepted, f, range
    <2> QED
      BY <1>5 DEF adopt_encos_mit_range, range
  <1>7. lost = 0 /\ chatter = 0 /\ query = "spd" => accepted
    <2>1. ASSUME lost = 0, chatter = 0, query = "spd" PROVE frame = RangeReply("spd")
      BY <1>1, <2>1 DEF CodecInv, LuckyInv
    <2>2. parse_mit_range_reply_encos_servo(RangeReply("spd"), "spd")
      BY ReplyIsAccepted
    <2> QED
      BY <2>1, <2>2
  <1> HIDE DEF accepted, frame, f, range
  <1>8. accepted => range = motorRange[f]
    BY <1>4 DEF range
  <1>9. MotorObeys' /\ TelemetryTrue'
    BY <1>1, TalkStays
  <1>10. RangeTypes'
    <2>1. CASE codec' = codec
      BY <1>1, <2>1 DEF CodecInv, RangeTypes
    <2>2. CASE /\ accepted /\ range[1] < range[2] /\ f = "vel"
               /\ codec' = [codec EXCEPT !.vel = range]
      <3>1. range = motorRange["vel"] /\ range \in Int \X Int
        BY <1>8, <2>2 DEF CodecInv, RangeTypes
      <3>2. codec' \in [{"vel", "tor"} -> Int \X Int]
        BY <2>2, <3>1 DEF CodecInv, RangeTypes
      <3>3. codec'["vel"] = range /\ codec'["tor"] = codec["tor"]
        BY <2>2 DEF CodecInv, RangeTypes
      <3> QED
        BY <1>1, <2>2, <3>2, <3>3 DEF CodecInv, RangeTypes
    <2> QED
      BY <1>6, <2>1, <2>2
  <1>11. RangeIsOwn' /\ reported' \in [{"vel", "tor"} -> {<<>>, motorRange'.vel, motorRange'.tor}]
    BY <1>1, <1>2, <1>6, <1>8 DEF CodecInv, RangeIsOwn, RangeTypes
  <1>12. Frames' = Frames
    BY <1>1 DEF Frames, RangeReply
  <1>13. QueryInv'
    BY <1>1, <1>3, <1>12 DEF CodecInv, QueryInv, NextQuery
  <1>14. LuckyInv'
    BY <1>1, <1>2, <1>6, <1>7, <1>8 DEF CodecInv, LuckyInv, NextQuery, RangeTypes
  <1>15. TalkInv'
    BY <1>1 DEF CodecInv, TalkInv
  <1> QED
    BY <1>1, <1>9, <1>10, <1>11, <1>13, <1>14, <1>15 DEF CodecInv

(* A command, a status frame and a register write.                            *)
LEMMA TalkKeeps ==
    ASSUME CodecInv,
           \/ \E request \in Requests : send_command(request)
           \/ \E m \in Reports : HearStatus(m)
           \/ \E v \in RegisterValues : WriteRegister(v)
    PROVE  CodecInv'
  <1>1. Quiet /\ kind' = kind /\ motorRange' = motorRange /\ UNCHANGED queryVars
    BY DEF send_command, HearStatus, WriteRegister
  <1>2. /\ query = "done" /\ codec' = codec /\ reported' = reported /\ query' = query
        /\ awaiting' = awaiting /\ answers' = answers /\ socket' = socket
        /\ lost' = lost /\ chatter' = chatter
    BY <1>1 DEF Quiet, queryVars
  <1>3. /\ RangeTypes' /\ QueryInv' /\ LuckyInv' /\ RangeIsOwn' /\ TalkInv'
        /\ lost' \in {0, 1} /\ chatter' \in Nat
        /\ reported' \in [{"vel", "tor"} -> {<<>>, motorRange'.vel, motorRange'.tor}]
    BY <1>1, <1>2 DEF CodecInv, RangeTypes, QueryInv, LuckyInv, RangeIsOwn, TalkInv, Frames,
       RangeReply
  <1>4. \A g : /\ RangeOf(g)' = RangeOf(g) /\ MotorRangeOf(g)' = MotorRangeOf(g)
               /\ Full(g)' = Full(g)
    BY <1>1, <1>2 DEF RangeOf, MotorRangeOf, Full, Bits
  <1>5. RangeTypes
    BY DEF CodecInv
  <1>6. CASE \E request \in Requests : send_command(request)
    <2>1. PICK request \in Requests : send_command(request)
      BY <1>6
    <2>2. /\ requested' = request /\ obeyed' = Understood(CommandFrame(request))
          /\ measured' = measured /\ seen' = seen /\ written' = written
          /\ request \in [Fields -> Int]
      BY <2>1, CodecAssumption DEF send_command
    <2>3. TelemetryTrue' /\ (written' # <<>> => written'[1] = written'[2])
      BY <1>1, <2>2 DEF Quiet, TelemetryTrue
    <2>4. ASSUME ~AtTop' PROVE Obeys(obeyed', request)
      <3>1. ~(kind = "dm" /\ \A g \in Fields \ {"tor"} : request[g] >= RangeOf(g)[2])
        BY <1>1, <1>4, <2>2, <2>4 DEF AtTop
      <3> QED
        BY <1>5, <2>2, <3>1, CommandsAreObeyed
    <2>5. MotorObeys'
      <3> SUFFICES ASSUME ~AtTop'
                   PROVE  /\ obeyed'[1] = "command"
                          /\ \A g \in Fields :
                              CASE requested'[g] >= RangeOf(g)'[2] -> obeyed'[2][g] = Full(g)'
                                [] requested'[g] <= RangeOf(g)'[1] -> obeyed'[2][g] = 0
                                [] OTHER -> Near(obeyed[2][g], requested[g], RangeOf(g), g)'
        BY <2>3 DEF MotorObeys
      <3>1. \A g \in Fields : Near(obeyed[2][g], requested[g], RangeOf(g), g)'
                              <=> Near(obeyed'[2][g], request[g], RangeOf(g), g)
        BY <1>4, <2>2 DEF Near
      <3> QED
        BY <1>4, <2>2, <2>4, <3>1 DEF Obeys
    <2> QED
      BY <1>3, <2>3, <2>5 DEF CodecInv
  <1>7. CASE \E m \in Reports : HearStatus(m)
    <2>1. PICK m \in Reports : HearStatus(m)
      BY <1>7
    <2>2. /\ measured' = m /\ Measurable(m) /\ m \in [Measured -> Int]
          /\ seen' = IF Ignored(StatusFrame(m)) THEN seen ELSE parse_status(StatusFrame(m))
          /\ requested' = requested /\ obeyed' = obeyed /\ written' = written
      BY <2>1, CodecAssumption DEF HearStatus
    <2>3. MotorObeys'
      BY <1>1, <2>2 DEF Quiet, MotorObeys
    <2>4. Ignored(StatusFrame(measured))' = Ignored(StatusFrame(m))
      BY <1>1, <1>4, <2>2 DEF Ignored, StatusFrame, float_to_uint
    <2>5. TelemetryTrue'
      <3> SUFFICES ASSUME ~Ignored(StatusFrame(m)), NEW g \in Measured, RangeOf(g) = MotorRangeOf(g)
                   PROVE  Near(seen'[g], m[g], RangeOf(g), g)
        BY <1>4, <2>2, <2>4 DEF TelemetryTrue, Near
      <3>1. seen' = parse_status(StatusFrame(m))
        BY <2>2
      <3> QED
        BY <1>5, <2>2, <3>1, StatusIsRead
    <2> QED
      BY <1>3, <2>3, <2>5 DEF CodecInv
  <1>8. CASE \E v \in RegisterValues : WriteRegister(v)
    <2>1. PICK v \in RegisterValues : WriteRegister(v)
      BY <1>8
    <2>2. /\ written' = <<v, RegisterValue(RegisterFrame(v))>>
          /\ requested' = requested /\ measured' = measured
      BY <2>1 DEF WriteRegister
    <2>3. MotorObeys' /\ TelemetryTrue'
      BY <1>1, <2>2, RegisterIsRead DEF Quiet, MotorObeys, TelemetryTrue
    <2> QED
      BY <1>3, <2>3 DEF CodecInv
  <1> QED
    BY <1>6, <1>7, <1>8

(* The driver and the motor take every frame to mean the same: for every      *)
(* table of ranges, every int16 range of the firmware, every request,         *)
(* whatever is lost, late or foreign among the answers to the queries.        *)
THEOREM EndsAgree == CodecSpec => []BothEndsAgree
  <1>1. CodecInit => CodecInv
    BY CodecStarts
  <1>2. CodecInv /\ [CodecNext]_codecVars => CodecInv'
    <2> SUFFICES ASSUME CodecInv, [CodecNext]_codecVars PROVE CodecInv'
      OBVIOUS
    <2>1. CASE UNCHANGED codecVars
      <3>1. /\ UNCHANGED <<kind, motorRange, talkVars>> /\ kind' = kind
            /\ motorRange' = motorRange /\ codec' = codec /\ reported' = reported
            /\ query' = query /\ awaiting' = awaiting /\ answers' = answers /\ socket' = socket
            /\ lost' = lost /\ chatter' = chatter /\ requested' = requested
            /\ measured' = measured
        BY <2>1 DEF codecVars, queryVars, talkVars
      <3>2. MotorObeys' /\ TelemetryTrue'
        BY <3>1, TalkStays
      <3> QED
        BY <3>1, <3>2 DEF CodecInv, RangeTypes, QueryInv, LuckyInv, RangeIsOwn, TalkInv,
           Frames, RangeReply
    <2> QED
      BY <2>1, QueriesKeep, ReadReplyKeeps, TalkKeeps DEF CodecNext
  <1>3. CodecInv => BothEndsAgree
    <2> SUFFICES ASSUME CodecInv PROVE BothEndsAgree
      OBVIOUS
    <2>1. ScalesAgree
      BY DEF CodecInv, LuckyInv, ScalesAgree
    <2> QED
      BY <2>1 DEF CodecInv, BothEndsAgree
  <1> QED
    BY <1>1, <1>2, <1>3, PTL DEF CodecSpec

-----------------------------------------------------------------------------
(***************************************************************************)
(* Safe mode.                                                              *)
(***************************************************************************)

CheckerStates == [hold : Nat, exit : Nat, holding : BOOLEAN]
CheckStates ==
    [of : [Checkers -> CheckerStates], latched : SUBSET Latches, anchor : Positions,
     code : Codes \cup {""}]

(* Checkers whose counts have not passed their thresholds.                    *)
Fits(s) ==
    /\ s \in CheckStates
    /\ \A c \in Checkers : s.of[c].hold <= Threshold[c] /\ s.of[c].exit <= ExitThreshold

(* is_holding() keeps the counts within their thresholds.                     *)
LEMMA HoldingFits ==
    ASSUME NEW k \in CheckerStates, NEW condition \in BOOLEAN, NEW n \in Nat \ {0},
           k.hold <= n, k.exit <= ExitThreshold
    PROVE  /\ IsHolding(k, condition, n) \in CheckerStates
           /\ IsHolding(k, condition, n).hold <= n
           /\ IsHolding(k, condition, n).exit <= ExitThreshold
           /\ ~k.holding =>
                /\ IsHolding(k, condition, n).hold =
                     (IF condition THEN AtMost(n, k.hold + 1) ELSE 0)
                /\ IsHolding(k, condition, n).holding <=>
                     IsHolding(k, condition, n).hold >= n
           /\ k.holding =>
                /\ IsHolding(k, condition, n).exit =
                     (IF condition THEN 0 ELSE AtMost(ExitThreshold, k.exit + 1))
                /\ IsHolding(k, condition, n).holding <=>
                     IsHolding(k, condition, n).exit < ExitThreshold
           /\ IsHolding(k, condition, n).holding /\ ~k.holding => condition
  <1>1. ExitThreshold \in Nat \ {0}
    BY ThresholdAssumption
  <1>2. CASE ~k.holding
    <2> DEFINE h == IF condition THEN AtMost(n, k.hold + 1) ELSE 0
               g == h >= n
    <2>1. IsHolding(k, condition, n) = [k EXCEPT !.hold = h, !.holding = g]
      BY <1>2 DEF IsHolding
    <2>2. h \in Nat /\ h <= n /\ (g => condition) /\ g \in BOOLEAN
      BY DEF CheckerStates, AtMost
    <2> HIDE DEF h, g
    <2>3. /\ IsHolding(k, condition, n).hold = h
          /\ IsHolding(k, condition, n).holding = g
          /\ IsHolding(k, condition, n).exit = k.exit
          /\ IsHolding(k, condition, n) \in CheckerStates
      BY <2>1, <2>2 DEF CheckerStates
    <2> QED
      BY <1>1, <1>2, <2>2, <2>3 DEF h, g
  <1>3. CASE k.holding
    <2> DEFINE e == IF condition THEN 0 ELSE AtMost(ExitThreshold, k.exit + 1)
               g == e < ExitThreshold
    <2>1. IsHolding(k, condition, n) = [k EXCEPT !.exit = e, !.holding = g]
      BY <1>3 DEF IsHolding
    <2>2. e \in Nat /\ e <= ExitThreshold /\ g \in BOOLEAN
      BY <1>1 DEF CheckerStates, AtMost
    <2> HIDE DEF e, g
    <2>3. /\ IsHolding(k, condition, n).exit = e
          /\ IsHolding(k, condition, n).holding = g
          /\ IsHolding(k, condition, n).hold = k.hold
          /\ IsHolding(k, condition, n) \in CheckerStates
      BY <2>1, <2>2 DEF CheckerStates
    <2> QED
      BY <1>1, <1>3, <2>2, <2>3 DEF e, g
  <1> QED
    BY <1>2, <1>3 DEF CheckerStates

(* A sample touches one checker and nothing else.                             *)
LEMMA SampleFits ==
    ASSUME NEW s, Fits(s), NEW c \in Checkers, NEW condition \in BOOLEAN
    PROVE  /\ Fits(Sampled(s, c, condition))
           /\ Sampled(s, c, condition).of[c] = IsHolding(s.of[c], condition, Threshold[c])
           /\ \A d \in Checkers : d # c => Sampled(s, c, condition).of[d] = s.of[d]
           /\ Sampled(s, c, condition).latched = s.latched
           /\ Sampled(s, c, condition).anchor = s.anchor
           /\ Sampled(s, c, condition).code = s.code
  <1> DEFINE k == IsHolding(s.of[c], condition, Threshold[c])
             t == Sampled(s, c, condition)
  <1>1. /\ s.of \in [Checkers -> CheckerStates] /\ s.of[c] \in CheckerStates
        /\ Threshold[c] \in Nat \ {0} /\ s.of[c].hold <= Threshold[c]
        /\ s.of[c].exit <= ExitThreshold
    BY ThresholdAssumption DEF Fits, CheckStates
  <1>2. k \in CheckerStates /\ k.hold <= Threshold[c] /\ k.exit <= ExitThreshold
    BY <1>1, HoldingFits
  <1>3. t = [s EXCEPT !.of[c] = k]
    BY DEF Sampled
  <1> HIDE DEF k, t
  <1>4. /\ t.of = [s.of EXCEPT ![c] = k] /\ t.latched = s.latched /\ t.anchor = s.anchor
        /\ t.code = s.code
    BY <1>3 DEF Fits, CheckStates
  <1>5. t \in CheckStates
    BY <1>1, <1>2, <1>3 DEF Fits, CheckStates
  <1>6. t.of[c] = k /\ \A d \in Checkers : d # c => t.of[d] = s.of[d]
    BY <1>1, <1>4
  <1>7. Fits(t)
    BY <1>2, <1>5, <1>6 DEF Fits
  <1> QED
    BY <1>4, <1>6, <1>7 DEF k, t

(* What graceful_management() makes of the checks.                            *)
GracefulTo(s, code, t) ==
    /\ Fits(t) /\ t.of = s.of
    /\ t.code = IF config.enabled /\ code \in {"POS_EXCEED", "POS_BEHIND"}
                THEN "SUCCESS" ELSE code
    /\ code = "POS_EXCEED" /\ config.enabled =>
         t.latched = s.latched \cup {"exceed"} /\ t.anchor = s.anchor
    /\ code = "POS_BEHIND" /\ config.enabled =>
         /\ t.latched = s.latched \cup {"behind"}
         /\ "behind" \in s.latched => t.anchor = s.anchor

(* It does so for every configuration.                                        *)
LEMMA GracefulFits ==
    ASSUME config \in Configurations, NEW s, Fits(s), NEW at \in Positions,
           NEW code \in {"POS_EXCEED", "POS_BEHIND", "VEL", "TOR"}
    PROVE  GracefulTo(s, code, Graceful(s, code, at))
  <1> DEFINE t == Graceful(s, code, at)
  <1> SUFFICES GracefulTo(s, code, t)
    OBVIOUS
  <1>1. config.enabled \in BOOLEAN
    BY ConfigurationAssumption
  <1>2. s \in CheckStates /\ \A c \in Checkers : /\ s.of[c].hold <= Threshold[c]
                                                 /\ s.of[c].exit <= ExitThreshold
    BY DEF Fits
  <1>3. ASSUME NEW l \in Latches
        PROVE  /\ Latch(s, l) \in CheckStates /\ Latch(s, l).of = s.of
               /\ Latch(s, l).latched = s.latched \cup {l} /\ Latch(s, l).anchor = s.anchor
    BY <1>2, <1>3 DEF Latch, CheckStates
  <1>4. ASSUME NEW u \in CheckStates
        PROVE  /\ LatchBehind(u, at) \in CheckStates /\ LatchBehind(u, at).of = u.of
               /\ LatchBehind(u, at).latched = u.latched \cup {"behind"}
               /\ "behind" \in u.latched => LatchBehind(u, at).anchor = u.anchor
    BY <1>4 DEF LatchBehind, Latch, CheckStates, Latches
  <1>5. ASSUME NEW u \in CheckStates, NEW c \in Codes
        PROVE  LET v == [u EXCEPT !.code = c]
               IN  /\ v \in CheckStates /\ v.of = u.of /\ v.code = c
                   /\ v.latched = u.latched /\ v.anchor = u.anchor
    BY <1>5 DEF CheckStates
  <1>6. ASSUME t \in CheckStates, t.of = s.of PROVE Fits(t)
    BY <1>2, <1>6 DEF Fits
  <1>7. code \in Codes /\ "SUCCESS" \in Codes
    BY DEF Codes
  <1>8. CASE ~config.enabled
    <2>1. t = [s EXCEPT !.code = code]
      BY <1>8 DEF Graceful
    <2> HIDE DEF t
    <2> QED
      BY <1>2, <1>5, <1>6, <1>7, <1>8, <2>1 DEF GracefulTo
  <1>9. CASE config.enabled /\ code = "POS_EXCEED"
    <2> DEFINE u == Latch(s, "exceed")
    <2>1. t = [u EXCEPT !.code = "SUCCESS"]
      BY <1>9 DEF Graceful
    <2>2. "exceed" \in Latches
      BY DEF Latches
    <2>3. u \in CheckStates /\ u.of = s.of /\ u.latched = s.latched \cup {"exceed"}
          /\ u.anchor = s.anchor
      BY <1>3, <2>2
    <2> HIDE DEF t, u
    <2>4. /\ t \in CheckStates /\ t.of = s.of /\ t.code = "SUCCESS"
          /\ t.latched = s.latched \cup {"exceed"} /\ t.anchor = s.anchor
      BY <1>5, <1>7, <2>1, <2>3
    <2> QED
      BY <1>6, <1>9, <2>4 DEF GracefulTo
  <1>10. CASE config.enabled /\ code = "POS_BEHIND"
    <2> DEFINE u == LatchBehind(s, at)
    <2>1. t = [u EXCEPT !.code = "SUCCESS"]
      BY <1>10 DEF Graceful
    <2>2. u \in CheckStates /\ u.of = s.of /\ u.latched = s.latched \cup {"behind"}
          /\ ("behind" \in s.latched => u.anchor = s.anchor)
      BY <1>2, <1>4
    <2> HIDE DEF t, u
    <2>3. /\ t \in CheckStates /\ t.of = s.of /\ t.code = "SUCCESS"
          /\ t.latched = s.latched \cup {"behind"}
          /\ ("behind" \in s.latched => t.anchor = s.anchor)
      BY <1>5, <1>7, <2>1, <2>2
    <2> QED
      BY <1>6, <1>10, <2>3 DEF GracefulTo
  <1>11. CASE config.enabled /\ code = "VEL"
    <2>1. t = [Latch(s, "velocity") EXCEPT !.code = code]
      BY <1>11 DEF Graceful
    <2>2. Latch(s, "velocity") \in CheckStates /\ Latch(s, "velocity").of = s.of
      BY <1>3 DEF Latches
    <2> HIDE DEF t
    <2> QED
      BY <1>5, <1>6, <1>7, <1>11, <2>1, <2>2 DEF GracefulTo
  <1>12. CASE config.enabled /\ code = "TOR"
    <2> DEFINE w == Latch(s, "torque")
               u == IF IsBehind(at, Tolerable) THEN LatchBehind(w, at) ELSE w
    <2>1. t = [u EXCEPT !.code = code]
      BY <1>12 DEF Graceful
    <2>2. w \in CheckStates /\ w.of = s.of
      BY <1>3 DEF Latches
    <2> HIDE DEF w
    <2>3. u \in CheckStates /\ u.of = s.of
      BY <1>4, <2>2
    <2> HIDE DEF t, u
    <2> QED
      BY <1>5, <1>6, <1>7, <1>12, <2>1, <2>3 DEF GracefulTo
  <1> QED
    BY <1>1, <1>8, <1>9, <1>10, <1>11, <1>12

(* exit_safe_mode() takes one latch away.                                     *)
LEMMA ExitFits ==
    ASSUME config \in Configurations, NEW s, Fits(s), NEW l \in Latches
    PROVE  LET t == ExitSafeMode(s, l)
           IN  /\ Fits(t) /\ t.of = s.of /\ t.anchor = s.anchor /\ t.code = s.code
               /\ t.latched = IF config.enabled THEN s.latched \ {l} ELSE s.latched
  BY DEF ExitSafeMode, Fits, CheckStates

(* Every check leaves the checkers of the others alone, and takes or leaves  *)
(* its own latch only.                                                        *)
Leaves(s, t, c) ==
    /\ Fits(t)
    /\ \A d \in Checkers : d # c => t.of[d] = s.of[d]

KeepsLatches(s, t, l) == t.latched \ {l} = s.latched \ {l} /\ t.anchor = s.anchor

(* The conditions of the checks are truth values.                             *)
LEMMA MembershipIsTruth == ASSUME NEW e, NEW S PROVE (e \in S) \in BOOLEAN
  OBVIOUS

(* So is the distance to the leader.                                          *)
LEMMA BehindIsTruth == ASSUME NEW at, NEW limit PROVE IsBehind(at, limit) \in BOOLEAN
  BY DEF IsBehind

(* The temperature check returns its code exactly when its checker holds.     *)
LEMMA TemperatureChecked ==
    ASSUME NEW s, Fits(s), s.code = "", NEW x \in Samples
    PROVE  LET t == CheckTemperature(s, x)
           IN  /\ Leaves(s, t, "temperature")
               /\ t.latched = s.latched /\ t.anchor = s.anchor
               /\ t.of["temperature"] =
                    IsHolding(s.of["temperature"], "hot" \in x.out, Threshold["temperature"])
               /\ t.code = IF t.of["temperature"].holding THEN "TEMPERATURE" ELSE ""
  <1> DEFINE b == "hot" \in x.out
             u == Sampled(s, "temperature", b)
             t == CheckTemperature(s, x)
  <1>0. b \in BOOLEAN
    BY MembershipIsTruth, Zenon
  <1>1. "temperature" \in Checkers /\ b \in BOOLEAN
    BY <1>0 DEF Checkers
  <1>2. t = IF u.of["temperature"].holding THEN [u EXCEPT !.code = "TEMPERATURE"] ELSE u
    BY DEF CheckTemperature
  <1>3. /\ Fits(u) /\ u.latched = s.latched /\ u.anchor = s.anchor /\ u.code = s.code
        /\ u.of["temperature"] =
             IsHolding(s.of["temperature"], b, Threshold["temperature"])
        /\ \A d \in Checkers : d # "temperature" => u.of[d] = s.of[d]
    BY <1>1, SampleFits, ZenonT(40)
  <1> HIDE DEF u, t
  <1>4. /\ t \in CheckStates /\ t.of = u.of /\ t.latched = u.latched /\ t.anchor = u.anchor
        /\ t.code = IF u.of["temperature"].holding THEN "TEMPERATURE" ELSE ""
    BY <1>2, <1>3 DEF Fits, CheckStates, Codes
  <1>5. Fits(t)
    BY <1>3, <1>4 DEF Fits
  <1> QED
    BY <1>3, <1>4, <1>5 DEF Leaves, t, b

(* The limit check returns with its latch set, or escalates.                  *)
LEMMA ExceedChecked ==
    ASSUME config \in Configurations, NEW s, Fits(s), s.code = "", NEW x \in Samples
    PROVE  LET t == CheckExceed(s, x)
           IN  /\ Leaves(s, t, "exceed")
               /\ t.code \in {"", "SUCCESS", "POS_EXCEED"}
               /\ t.code # "POS_EXCEED" => KeepsLatches(s, t, "exceed")
               /\ t.code = "SUCCESS" => "exceed" \in t.latched
  <1> DEFINE b == x.at \notin PosMin - ErrorMargin .. PosMax + ErrorMargin
             u == Sampled(s, "exceed", b)
             t == CheckExceed(s, x)
  <1>1. "exceed" \in Checkers /\ b \in BOOLEAN /\ "exceed" \in Latches
    BY DEF Checkers, Latches
  <1>2. x.at \in Positions /\ config.enabled \in BOOLEAN
    BY ConfigurationAssumption DEF Samples
  <1>3. t = IF u.of["exceed"].holding
            THEN Graceful(u, "POS_EXCEED", x.at) ELSE ExitSafeMode(u, "exceed")
    BY DEF CheckExceed
  <1>4. /\ Fits(u) /\ u.latched = s.latched /\ u.anchor = s.anchor /\ u.code = s.code
        /\ \A d \in Checkers : d # "exceed" => u.of[d] = s.of[d]
    BY <1>1, SampleFits
  <1> HIDE DEF u, t, b
  <1>5. CASE u.of["exceed"].holding
    <2>1. GracefulTo(u, "POS_EXCEED", t)
      BY <1>2, <1>3, <1>4, <1>5, GracefulFits
    <2> QED
      BY <1>2, <1>4, <2>1 DEF GracefulTo, Leaves, KeepsLatches, t
  <1>6. CASE ~u.of["exceed"].holding
    <2>1. t = ExitSafeMode(u, "exceed")
      BY <1>3, <1>6
    <2>2. /\ Fits(t) /\ t.of = u.of /\ t.anchor = u.anchor /\ t.code = u.code
          /\ t.latched = IF config.enabled THEN u.latched \ {"exceed"} ELSE u.latched
      BY <1>1, <1>4, <2>1, ExitFits
    <2> QED
      BY <1>2, <1>4, <2>2 DEF Leaves, KeepsLatches, t
  <1> QED
    BY <1>5, <1>6

(* What the position-behind check makes of its checker, latch and anchor.     *)
Behind(s, t, x) ==
    /\ t.of["behind"] =
         IsHolding(s.of["behind"], IsBehind(x.at, MaxBehind), Threshold["behind"])
    /\ t.code # "POS_BEHIND" =>
         /\ t.latched \ {"behind"} = s.latched \ {"behind"}
         /\ config.enabled => ("behind" \in t.latched <=> t.of["behind"].holding)
         /\ ~config.enabled => ~t.of["behind"].holding /\ t.latched = s.latched
         /\ "behind" \in s.latched /\ "behind" \in t.latched => t.anchor = s.anchor

(* The position-behind check is skipped in a ready move and else sets or      *)
(* clears its latch as its checker says.                                      *)
LEMMA BehindChecked ==
    ASSUME config \in Configurations, tele \in Positions, NEW s, Fits(s), s.code = "",
           NEW x \in Samples
    PROVE  LET t == CheckBehind(s, x)
           IN  /\ mode # "operate" => t = s
               /\ mode = "operate" =>
                    /\ Leaves(s, t, "behind")
                    /\ t.code \in {"", "SUCCESS", "POS_BEHIND"}
                    /\ Behind(s, t, x)
  <1> DEFINE b == IsBehind(x.at, MaxBehind)
             u == Sampled(s, "behind", b)
             t == CheckBehind(s, x)
  <1>0. b \in BOOLEAN
    BY BehindIsTruth, Zenon
  <1>1. "behind" \in Checkers /\ b \in BOOLEAN /\ "behind" \in Latches
    BY <1>0 DEF Checkers, Latches
  <1>2. x.at \in Positions /\ config.enabled \in BOOLEAN
    BY ConfigurationAssumption DEF Samples
  <1>3. t = IF mode # "operate" THEN s
            ELSE IF u.of["behind"].holding
            THEN Graceful(u, "POS_BEHIND", x.at) ELSE ExitSafeMode(u, "behind")
    BY DEF CheckBehind
  <1>4. /\ Fits(u) /\ u.latched = s.latched /\ u.anchor = s.anchor /\ u.code = s.code
        /\ u.of["behind"] = IsHolding(s.of["behind"], b, Threshold["behind"])
        /\ \A d \in Checkers : d # "behind" => u.of[d] = s.of[d]
    BY <1>1, SampleFits
  <1> HIDE DEF u, t, b
  <1>5. CASE mode # "operate"
    BY <1>3, <1>5 DEF t
  <1>6. CASE mode = "operate" /\ u.of["behind"].holding
    <2>1. GracefulTo(u, "POS_BEHIND", t)
      BY <1>2, <1>3, <1>4, <1>6, GracefulFits
    <2>2. Leaves(s, t, "behind") /\ t.of["behind"] = u.of["behind"]
      BY <1>4, <2>1 DEF GracefulTo, Leaves
    <2>3. t.code \in {"SUCCESS", "POS_BEHIND"} /\ (t.code = "SUCCESS" <=> config.enabled)
      BY <1>2, <2>1 DEF GracefulTo
    <2>4. Behind(s, t, x)
      BY <1>2, <1>4, <1>6, <2>1, <2>2, <2>3 DEF GracefulTo, Behind, b
    <2> QED
      BY <1>6, <2>2, <2>3, <2>4 DEF t
  <1>7. CASE mode = "operate" /\ ~u.of["behind"].holding
    <2>1. t = ExitSafeMode(u, "behind")
      BY <1>3, <1>7
    <2>2. /\ Fits(t) /\ t.of = u.of /\ t.anchor = u.anchor /\ t.code = u.code
          /\ t.latched = IF config.enabled THEN u.latched \ {"behind"} ELSE u.latched
      BY <1>1, <1>4, <2>1, ExitFits
    <2>3. Leaves(s, t, "behind") /\ t.of["behind"] = u.of["behind"] /\ t.code = ""
      BY <1>4, <2>2 DEF Leaves
    <2>4. Behind(s, t, x)
      BY <1>2, <1>4, <1>7, <2>2, <2>3 DEF Behind, b
    <2> QED
      BY <1>7, <2>3, <2>4 DEF t
  <1> QED
    BY <1>5, <1>6, <1>7

(* The velocity check escalates or leaves the position latches.               *)
LEMMA VelocityChecked ==
    ASSUME config \in Configurations, NEW s, Fits(s), s.code = "", NEW x \in Samples
    PROVE  LET t == CheckVelocity(s, x)
           IN  /\ Leaves(s, t, "velocity")
               /\ t.code \in {"", "VEL"}
               /\ t.code = "" => KeepsLatches(s, t, "velocity")
  <1> DEFINE b == "fast" \in x.out
             u == Sampled(s, "velocity", b)
             t == CheckVelocity(s, x)
  <1>0. b \in BOOLEAN
    BY MembershipIsTruth, Zenon
  <1>1. "velocity" \in Checkers /\ b \in BOOLEAN /\ "velocity" \in Latches
    BY <1>0 DEF Checkers, Latches
  <1>2. x.at \in Positions /\ config.enabled \in BOOLEAN
    BY ConfigurationAssumption DEF Samples
  <1>3. t = IF u.of["velocity"].holding
            THEN Graceful(u, "VEL", x.at) ELSE ExitSafeMode(u, "velocity")
    BY DEF CheckVelocity
  <1>4. /\ Fits(u) /\ u.latched = s.latched /\ u.anchor = s.anchor /\ u.code = s.code
        /\ \A d \in Checkers : d # "velocity" => u.of[d] = s.of[d]
    BY <1>1, SampleFits
  <1> HIDE DEF u, t, b
  <1>5. CASE u.of["velocity"].holding
    <2>1. GracefulTo(u, "VEL", t)
      BY <1>2, <1>3, <1>4, <1>5, GracefulFits
    <2> QED
      BY <1>2, <1>4, <2>1 DEF GracefulTo, Leaves, KeepsLatches, t
  <1>6. CASE ~u.of["velocity"].holding
    <2>1. t = ExitSafeMode(u, "velocity")
      BY <1>3, <1>6
    <2>2. /\ Fits(t) /\ t.of = u.of /\ t.anchor = u.anchor /\ t.code = u.code
          /\ t.latched = IF config.enabled THEN u.latched \ {"velocity"} ELSE u.latched
      BY <1>1, <1>4, <2>1, ExitFits
    <2> QED
      BY <1>2, <1>4, <2>2 DEF Leaves, KeepsLatches, t
  <1> QED
    BY <1>5, <1>6

(* The torque check too.                                                      *)
LEMMA TorqueChecked ==
    ASSUME config \in Configurations, tele \in Positions, NEW s, Fits(s), s.code = "",
           NEW x \in Samples
    PROVE  LET t == CheckTorque(s, x)
           IN  /\ Leaves(s, t, "torque")
               /\ t.code \in {"", "TOR"}
               /\ t.code = "" => KeepsLatches(s, t, "torque")
  <1> DEFINE b == "strained" \in x.out
             u == Sampled(s, "torque", b)
             t == CheckTorque(s, x)
  <1>0. b \in BOOLEAN
    BY MembershipIsTruth, Zenon
  <1>1. "torque" \in Checkers /\ b \in BOOLEAN /\ "torque" \in Latches
    BY <1>0 DEF Checkers, Latches
  <1>2. x.at \in Positions /\ config.enabled \in BOOLEAN
    BY ConfigurationAssumption DEF Samples
  <1>3. t \in {u, ExitSafeMode(u, "torque"), Graceful(u, "TOR", x.at)}
    BY DEF CheckTorque
  <1>4. /\ Fits(u) /\ u.latched = s.latched /\ u.anchor = s.anchor /\ u.code = s.code
        /\ \A d \in Checkers : d # "torque" => u.of[d] = s.of[d]
    BY <1>1, SampleFits
  <1> HIDE DEF u, t, b
  <1>5. CASE t = Graceful(u, "TOR", x.at)
    <2>1. GracefulTo(u, "TOR", t)
      BY <1>2, <1>4, <1>5, GracefulFits
    <2> QED
      BY <1>2, <1>4, <2>1 DEF GracefulTo, Leaves, KeepsLatches, t
  <1>6. CASE t = ExitSafeMode(u, "torque")
    <2>1. /\ Fits(t) /\ t.of = u.of /\ t.anchor = u.anchor /\ t.code = u.code
          /\ t.latched = IF config.enabled THEN u.latched \ {"torque"} ELSE u.latched
      BY <1>1, <1>4, <1>6, ExitFits
    <2> QED
      BY <1>2, <1>4, <2>1 DEF Leaves, KeepsLatches, t
  <1>7. CASE t = u
    BY <1>4, <1>7 DEF Leaves, KeepsLatches, t
  <1> QED
    BY <1>3, <1>5, <1>6, <1>7

(* What a read makes of the checks.                                           *)
BehindKept(r) ==
    /\ r.of["behind"] = checks.of["behind"] /\ r.anchor = checks.anchor
    /\ "behind" \in r.latched <=> "behind" \in checks.latched
ReadAs(r, x) ==
    /\ Fits(r) /\ r.code \in Codes
    /\ r.of["temperature"] =
         IsHolding(checks.of["temperature"], "hot" \in x.out, Threshold["temperature"])
    /\ r.of["temperature"].holding <=> r.code = "TEMPERATURE"
    /\ r.code = "SUCCESS" =>
         \/ (mode # "operate" \/ "exceed" \in r.latched) /\ BehindKept(r)
         \/ /\ mode = "operate"
            /\ r.of["behind"] =
                 IsHolding(checks.of["behind"], IsBehind(x.at, MaxBehind), Threshold["behind"])
            /\ config.enabled => ("behind" \in r.latched <=> r.of["behind"].holding)
            /\ ~config.enabled =>
                 /\ ~r.of["behind"].holding
                 /\ "behind" \in r.latched <=> "behind" \in checks.latched
            /\ "behind" \in checks.latched /\ "behind" \in r.latched =>
                 r.anchor = checks.anchor

(* read_hardware_values(), check by check.                                    *)
LEMMA ReadFacts ==
    ASSUME config \in Configurations, tele \in Positions, Fits(checks), NEW x \in Samples
    PROVE  ReadAs(ReadHardwareValues(x), x)
  <1> DEFINE s0 == [checks EXCEPT !.code = ""]
             s1 == CheckTemperature(s0, x)
             s2 == Then(s1, CheckExceed(s1, x))
             s3 == Then(s2, CheckBehind(s2, x))
             s4 == Then(s3, CheckVelocity(s3, x))
             s5 == Then(s4, CheckTorque(s4, x))
             r == Then(s5, [s5 EXCEPT !.code = "SUCCESS"])
             n == Threshold["temperature"]
             hot == IsHolding(checks.of["temperature"], "hot" \in x.out, n)
             far == IsHolding(checks.of["behind"], IsBehind(x.at, MaxBehind),
                              Threshold["behind"])
  <1>0. ReadHardwareValues(x) = r
    BY DEF ReadHardwareValues
  <1>1. /\ Fits(s0) /\ s0.code = "" /\ s0.of = checks.of
        /\ s0.latched = checks.latched /\ s0.anchor = checks.anchor
    BY DEF Fits, CheckStates
  <1>2. /\ Leaves(s0, s1, "temperature")
        /\ s1.latched = s0.latched /\ s1.anchor = s0.anchor
        /\ s1.of["temperature"] = IsHolding(s0.of["temperature"], "hot" \in x.out, n)
        /\ s1.code = IF s1.of["temperature"].holding THEN "TEMPERATURE" ELSE ""
    <2> HIDE DEF s0
    <2> QED
      BY <1>1, TemperatureChecked
  <1>3. ASSUME s1.code = ""
        PROVE  /\ Leaves(s1, s2, "exceed") /\ s2.code \in {"", "SUCCESS", "POS_EXCEED"}
               /\ s2.code # "POS_EXCEED" => KeepsLatches(s1, s2, "exceed")
               /\ s2.code = "SUCCESS" => "exceed" \in s2.latched
    <2> HIDE DEF s1
    <2> QED
      BY <1>2, <1>3, ExceedChecked DEF Then, Leaves
  <1>4. ASSUME s2.code = "", Fits(s2)
        PROVE  /\ mode # "operate" => s3 = s2
               /\ mode = "operate" => /\ Leaves(s2, s3, "behind") /\ Behind(s2, s3, x)
                                      /\ s3.code \in {"", "SUCCESS", "POS_BEHIND"}
    <2> HIDE DEF s2
    <2> QED
      BY <1>4, BehindChecked DEF Then
  <1>5. ASSUME s3.code = "", Fits(s3)
        PROVE  /\ Leaves(s3, s4, "velocity") /\ s4.code \in {"", "VEL"}
               /\ s4.code = "" => KeepsLatches(s3, s4, "velocity")
    <2> HIDE DEF s3
    <2> QED
      BY <1>5, VelocityChecked DEF Then
  <1>6. ASSUME s4.code = "", Fits(s4)
        PROVE  /\ Leaves(s4, s5, "torque") /\ s5.code \in {"", "TOR"}
               /\ s5.code = "" => KeepsLatches(s4, s5, "torque")
    <2> HIDE DEF s4
    <2> QED
      BY <1>6, TorqueChecked DEF Then
  <1>7. /\ s1.code # "" => s2 = s1
        /\ s2.code # "" => s3 = s2
        /\ s3.code # "" => s4 = s3
        /\ s4.code # "" => s5 = s4
        /\ s5.code # "" => r = s5
    <2> HIDE DEF s1, s2, s3, s4, s5
    <2> QED
      BY DEF Then, s2, s3, s4, s5
  <1>8. ASSUME s5.code = "", Fits(s5)
        PROVE  /\ Fits(r) /\ r.code = "SUCCESS" /\ r.of = s5.of
               /\ r.latched = s5.latched /\ r.anchor = s5.anchor
    <2> HIDE DEF s5
    <2> QED
      BY <1>8 DEF Then, Fits, CheckStates, Codes
  <1> HIDE DEF s0, s1, s2, s3, s4, s5, r
  <1>9. /\ Fits(s1) /\ s1.of["temperature"] = hot /\ s1.of["behind"] = checks.of["behind"]
        /\ s1.latched = checks.latched /\ s1.anchor = checks.anchor
        /\ s1.code = IF hot.holding THEN "TEMPERATURE" ELSE ""
    BY <1>1, <1>2 DEF Leaves, Checkers
  <1> HIDE DEF hot
  <1>10. CASE s1.code = "TEMPERATURE"
    <2>1. r = s1
      BY <1>7, <1>10
    <2> QED
      BY <1>0, <1>9, <1>10, <2>1 DEF ReadAs, Codes, hot
  <1>11. CASE s1.code = "" /\ s2.code # ""
    <2>1. r = s2
      BY <1>7, <1>11
    <2>2. /\ Fits(s2) /\ s2.of["temperature"] = hot
          /\ s2.of["behind"] = checks.of["behind"] /\ ~hot.holding
          /\ s2.code \in {"SUCCESS", "POS_EXCEED"}
      BY <1>3, <1>9, <1>11 DEF Leaves, Checkers
    <2>3. s2.code = "SUCCESS" => "exceed" \in s2.latched /\ BehindKept(s2)
      BY <1>3, <1>9, <1>11, <2>2 DEF KeepsLatches, BehindKept
    <2> QED
      BY <1>0, <2>1, <2>2, <2>3 DEF ReadAs, Codes, hot
  <1>12. CASE s1.code = "" /\ s2.code = ""
    <2>1. /\ Fits(s2) /\ s2.of["temperature"] = hot
          /\ s2.of["behind"] = checks.of["behind"] /\ ~hot.holding
          /\ s2.latched \ {"exceed"} = checks.latched \ {"exceed"}
          /\ s2.anchor = checks.anchor
      BY <1>3, <1>9, <1>12 DEF Leaves, Checkers, KeepsLatches
    <2>2. CASE mode = "operate"
      <3>1. /\ Leaves(s2, s3, "behind") /\ Behind(s2, s3, x)
            /\ s3.code \in {"", "SUCCESS", "POS_BEHIND"}
        BY <1>4, <1>12, <2>1, <2>2
      <3>2. /\ Fits(s3) /\ s3.of["temperature"] = hot /\ s3.of["behind"] = far
        BY <2>1, <3>1 DEF Leaves, Behind, Checkers
      <3> DEFINE Judged(t) ==
                   /\ config.enabled => ("behind" \in t.latched <=> far.holding)
                   /\ ~config.enabled =>
                        /\ ~far.holding
                        /\ "behind" \in t.latched <=> "behind" \in checks.latched
                   /\ "behind" \in checks.latched /\ "behind" \in t.latched =>
                        t.anchor = checks.anchor
      <3>3. s3.code # "POS_BEHIND" => Judged(s3)
        BY <2>1, <3>1, <3>2 DEF Behind
      <3> HIDE DEF Judged, far
      <3>4. ASSUME Fits(r), r.of["temperature"] = hot, r.of["behind"] = far,
                   r.code \in Codes \ {"TEMPERATURE"}, r.code = "SUCCESS" => Judged(r)
            PROVE  ReadAs(r, x)
        BY <2>1, <2>2, <3>4 DEF ReadAs, Judged, hot, far
      <3>5. CASE s3.code # ""
        <4>1. r = s3
          BY <1>7, <3>5
        <4> QED
          BY <1>0, <3>1, <3>2, <3>3, <3>4, <3>5, <4>1 DEF Codes
      <3>6. CASE s3.code = ""
        <4>1. /\ Leaves(s3, s4, "velocity") /\ s4.code \in {"", "VEL"}
              /\ s4.code = "" => KeepsLatches(s3, s4, "velocity")
          BY <1>5, <3>2, <3>6
        <4>2. Fits(s4) /\ s4.of["temperature"] = hot /\ s4.of["behind"] = far
          BY <3>2, <4>1 DEF Leaves, Checkers
        <4>3. CASE s4.code = "VEL"
          <5>1. r = s4
            BY <1>7, <4>3
          <5> QED
            BY <1>0, <3>4, <4>2, <4>3, <5>1 DEF Codes
        <4>4. CASE s4.code = ""
          <5>1. /\ Leaves(s4, s5, "torque") /\ s5.code \in {"", "TOR"}
                /\ s5.code = "" => KeepsLatches(s4, s5, "torque")
            BY <1>6, <4>2, <4>4
          <5>2. Fits(s5) /\ s5.of["temperature"] = hot /\ s5.of["behind"] = far
            BY <4>2, <5>1 DEF Leaves, Checkers
          <5>3. CASE s5.code = "TOR"
            <6>1. r = s5
              BY <1>7, <5>3
            <6> QED
              BY <1>0, <3>4, <5>2, <5>3, <6>1 DEF Codes
          <5>4. CASE s5.code = ""
            <6>1. /\ Fits(r) /\ r.code = "SUCCESS" /\ r.of = s5.of
                  /\ r.latched = s5.latched /\ r.anchor = s5.anchor
              BY <1>8, <5>2, <5>4
            <6>2. /\ "behind" \in r.latched <=> "behind" \in s3.latched
                  /\ r.anchor = s3.anchor
              BY <4>1, <4>4, <5>1, <5>4, <6>1 DEF KeepsLatches
            <6>3. Judged(r)
              BY <3>3, <3>6, <6>2 DEF Judged
            <6> QED
              BY <1>0, <3>4, <5>2, <6>1, <6>3 DEF Codes
          <5> QED
            BY <5>1, <5>3, <5>4
        <4> QED
          BY <4>1, <4>3, <4>4
      <3> QED
        BY <3>5, <3>6
    <2>3. CASE mode # "operate"
      <3>1. s3 = s2 /\ s3.code = ""
        BY <1>4, <1>12, <2>1, <2>3
      <3>2. /\ Leaves(s3, s4, "velocity") /\ s4.code \in {"", "VEL"}
            /\ s4.code = "" => KeepsLatches(s3, s4, "velocity")
        BY <1>5, <2>1, <3>1
      <3>3. /\ Fits(s4) /\ s4.of["temperature"] = hot
            /\ s4.of["behind"] = checks.of["behind"]
        BY <2>1, <3>1, <3>2 DEF Leaves, Checkers
      <3>4. CASE s4.code = "VEL"
        <4>1. r = s4
          BY <1>7, <3>4
        <4> QED
          BY <1>0, <2>1, <3>3, <3>4, <4>1 DEF ReadAs, Codes, hot
      <3>5. CASE s4.code = ""
        <4>1. /\ Leaves(s4, s5, "torque") /\ s5.code \in {"", "TOR"}
              /\ s5.code = "" => KeepsLatches(s4, s5, "torque")
          BY <1>6, <3>3, <3>5
        <4>2. /\ Fits(s5) /\ s5.of["temperature"] = hot
              /\ s5.of["behind"] = checks.of["behind"]
          BY <3>3, <4>1 DEF Leaves, Checkers
        <4>3. CASE s5.code = "TOR"
          <5>1. r = s5
            BY <1>7, <4>3
          <5> QED
            BY <1>0, <2>1, <4>2, <4>3, <5>1 DEF ReadAs, Codes, hot
        <4>4. CASE s5.code = ""
          <5>1. /\ Fits(r) /\ r.code = "SUCCESS" /\ r.of = s5.of
                /\ r.latched = s5.latched /\ r.anchor = s5.anchor
            BY <1>8, <4>2, <4>4
          <5>2. BehindKept(r)
            BY <2>1, <3>1, <3>2, <3>5, <4>1, <4>2, <4>4, <5>1 DEF KeepsLatches, BehindKept
          <5> QED
            BY <1>0, <2>1, <2>3, <4>2, <5>1, <5>2 DEF ReadAs, Codes, hot
        <4> QED
          BY <4>1, <4>3, <4>4
      <3> QED
        BY <3>2, <3>4, <3>5
    <2> QED
      BY <2>2, <2>3
  <1> QED
    BY <1>9, <1>10, <1>11, <1>12

(* While the arm is not stopped, the temperature checker counts the hot reads *)
(* and has not tripped.                                                       *)
HeatInv ==
    mode # "alarm" =>
        /\ ~checks.of["temperature"].holding
        /\ checks.of["temperature"].hold = hotRun
        /\ hotRun < Threshold["temperature"]

(* While the position-behind checker holds, its exit count has seen every     *)
(* cycle that the joint was near.                                             *)
NearInv ==
    mode # "alarm" /\ checks.of["behind"].holding =>
        nearRun <= checks.of["behind"].exit /\ nearRun < ExitThreshold

SafeInv ==
    /\ config \in Configurations
    /\ mode \in {"operate", "requested", "moving", "alarm"}
    /\ pos \in Positions /\ tele \in Positions /\ target \in Positions
    /\ Fits(checks) /\ checks.code \in Codes
    /\ hotRun \in 0 .. Threshold["temperature"] /\ nearRun \in 0 .. ExitThreshold
    /\ HeatInv /\ HeatTrips /\ LatchFollowsChecker /\ NearInv

(* The invariant gives what SafeModeIsSound says of a state.                  *)
LEMMA SafeStates ==
    SafeInv => TypeOK /\ HeatTrips /\ LatchFollowsChecker /\ LatchIsLeft
  <1> SUFFICES ASSUME SafeInv PROVE TypeOK /\ HeatTrips /\ LatchFollowsChecker /\ LatchIsLeft
    OBVIOUS
  <1>1. checks.of \in [Checkers -> CheckerStates] /\ checks.latched \subseteq Latches
        /\ checks.anchor \in Positions
    BY DEF SafeInv, Fits, CheckStates
  <1>2. \A c \in Checkers : Threshold[c] \in Nat
    BY ThresholdAssumption
  <1>3. ASSUME NEW c \in Checkers
        PROVE  /\ checks.of[c].hold \in 0 .. Threshold[c]
               /\ checks.of[c].exit \in 0 .. ExitThreshold
               /\ checks.of[c].holding \in BOOLEAN
    <2>1. /\ checks.of[c] \in CheckerStates /\ checks.of[c].hold <= Threshold[c]
          /\ checks.of[c].exit <= ExitThreshold
      BY <1>1, <1>3 DEF SafeInv, Fits
    <2>2. checks.of[c].holding \in BOOLEAN
      BY <2>1 DEF CheckerStates
    <2> QED
      BY <1>2, <2>1, <2>2, ThresholdAssumption DEF CheckerStates
  <1>4. TypeOK
    BY <1>1, <1>3 DEF TypeOK, SafeInv
  <1>5. LatchIsLeft
    BY ThresholdAssumption DEF SafeInv, LatchIsLeft, LatchFollowsChecker, NearInv
  <1> QED
    BY <1>4, <1>5 DEF SafeInv

(* It holds initially.                                                        *)
LEMMA SafeStart == Init => SafeInv
  <1> SUFFICES ASSUME Init PROVE SafeInv
    OBVIOUS
  <1>1. "temperature" \in Checkers /\ "behind" \in Checkers
    BY DEF Checkers
  <1>2. \A c \in Checkers : Threshold[c] \in Nat \ {0}
    BY ThresholdAssumption
  <1>3. checks.of = [c \in Checkers |-> NewChecker] /\ checks.latched = {}
        /\ checks.anchor = 0 /\ checks.code = "SUCCESS"
    BY DEF Init
  <1>4. NewChecker \in CheckerStates /\ NewChecker.hold = 0 /\ NewChecker.exit = 0
        /\ NewChecker.holding = FALSE
    BY DEF NewChecker, CheckerStates
  <1>5. 0 \in Positions
    BY ReachAssumption DEF Positions
  <1>6. checks.of \in [Checkers -> CheckerStates] /\ "SUCCESS" \in Codes
    BY <1>3, <1>4 DEF Codes
  <1>7. checks \in CheckStates
    <2> DEFINE f == [c \in Checkers |-> NewChecker]
    <2>1. checks = [of |-> f, latched |-> {}, anchor |-> 0, code |-> "SUCCESS"]
      BY DEF Init
    <2>2. f \in [Checkers -> CheckerStates]
      BY <1>4
    <2> HIDE DEF f
    <2> QED
      BY <1>5, <1>6, <2>1, <2>2 DEF CheckStates
  <1>8. Fits(checks)
    BY <1>2, <1>3, <1>4, <1>7, ThresholdAssumption DEF Fits
  <1>9. checks.of["temperature"] = NewChecker /\ checks.of["behind"] = NewChecker
    BY <1>1, <1>3
  <1>10. hotRun = 0 /\ nearRun = 0 /\ mode = "operate" /\ config \in Configurations
         /\ pos = Home /\ tele = Home /\ target = Home
    BY DEF Init
  <1>11. HeatInv /\ HeatTrips /\ LatchFollowsChecker /\ NearInv
    <2>1. HeatInv /\ HeatTrips
      BY <1>1, <1>2, <1>4, <1>9, <1>10 DEF HeatInv, HeatTrips
    <2>2. LatchFollowsChecker /\ NearInv
      BY <1>3, <1>4, <1>9 DEF LatchFollowsChecker, NearInv
    <2> QED
      BY <2>1, <2>2
  <1> QED
    BY <1>1, <1>2, <1>3, <1>6, <1>8, <1>10, <1>11, ReachAssumption, ThresholdAssumption
    DEF SafeInv

(* The slew ends on the grid and never further from its goal.                 *)
LEMMA SlewFacts ==
    ASSUME NEW from \in Positions, NEW goal \in Positions
    PROVE  /\ SlewTo(from, goal) \in Positions
           /\ Abs(SlewTo(from, goal) - goal) <= Abs(from - goal)
  BY ReachAssumption, DistanceAssumption DEF SlewTo, Clip, Abs, Positions

(* get_safe_tele_pos_rad() stays on the grid and is the anchor while only the *)
(* position-behind latch is set.                                              *)
LEMMA SafeTeleFacts ==
    ASSUME NEW s, Fits(s), NEW t \in Positions
    PROVE  /\ SafeTele(s, t) \in Positions
           /\ config.enabled /\ "behind" \in s.latched /\ "exceed" \notin s.latched =>
                SafeTele(s, t) = s.anchor
  <1>1. s.anchor \in Positions
    BY DEF Fits, CheckStates
  <1>2. Clip(t, PosMin, PosMax) \in Positions
    BY ReachAssumption DEF Clip
  <1> QED
    BY <1>1, <1>2 DEF SafeTele

(* A read keeps the invariant's parts about the checks.                       *)
LEMMA ReadKeeps ==
    ASSUME SafeInv, mode # "alarm", NEW x \in Samples, Read(x)
    PROVE  /\ ReadAs(checks', x)
           /\ pos' \in Positions
           /\ hotRun' \in 0 .. Threshold["temperature"] /\ nearRun' \in 0 .. ExitThreshold
           /\ checks'.code # "TEMPERATURE" =>
                /\ ~checks'.of["temperature"].holding
                /\ checks'.of["temperature"].hold = hotRun'
                /\ hotRun' < Threshold["temperature"]
           /\ hotRun' = Threshold["temperature"] => checks'.code = "TEMPERATURE"
           /\ checks'.code = "SUCCESS" =>
                /\ "behind" \in checks'.latched <=>
                     config.enabled /\ checks'.of["behind"].holding
                /\ checks'.of["behind"].holding =>
                     nearRun' <= checks'.of["behind"].exit /\ nearRun' < ExitThreshold
  <1> DEFINE r == ReadHardwareValues(x)
             n == Threshold["temperature"]
             k == checks.of["temperature"]
             hot == "hot" \in x.out
             b == checks.of["behind"]
             far == IsBehind(x.at, MaxBehind)
  <1>1. checks' = r /\ pos' = x.at /\ hotRun' = (IF hot THEN AtMost(n, hotRun + 1) ELSE 0)
        /\ nearRun' = (IF mode = "operate" /\ ~far /\ "exceed" \notin r.latched
                       THEN AtMost(ExitThreshold, nearRun + 1) ELSE 0)
    BY DEF Read
  <1>2. ReadAs(r, x)
    BY ReadFacts DEF SafeInv
  <1>3. /\ n \in Nat \ {0} /\ ExitThreshold \in Nat \ {0} /\ Threshold["behind"] \in Nat \ {0}
        /\ "temperature" \in Checkers /\ "behind" \in Checkers
    BY ThresholdAssumption DEF Checkers
  <1>4. /\ k \in CheckerStates /\ k.hold <= n /\ k.exit <= ExitThreshold
        /\ b \in CheckerStates /\ b.hold <= Threshold["behind"] /\ b.exit <= ExitThreshold
    BY <1>3 DEF SafeInv, Fits, CheckStates
  <1>5. ~k.holding /\ k.hold = hotRun /\ hotRun < n /\ hotRun \in Nat /\ nearRun \in Nat
    BY <1>3 DEF SafeInv, HeatInv
  <1>6. hot \in BOOLEAN
    BY MembershipIsTruth, Zenon
  <1>7. far \in BOOLEAN
    BY BehindIsTruth, Zenon
  <1>8. x.at \in Positions
    BY DEF Samples
  <1>9. hotRun' \in 0 .. n /\ nearRun' \in 0 .. ExitThreshold
    <2> HIDE DEF n, far, hot, r
    <2> QED
      BY <1>1, <1>3, <1>5 DEF AtMost
  <1>10. /\ r.of["temperature"] = IsHolding(k, hot, n)
         /\ r.of["temperature"].holding <=> r.code = "TEMPERATURE"
    BY <1>2 DEF ReadAs
  <1>11. /\ IsHolding(k, hot, n).hold = (IF hot THEN AtMost(n, k.hold + 1) ELSE 0)
         /\ IsHolding(k, hot, n).holding <=> IsHolding(k, hot, n).hold >= n
    <2> HIDE DEF k, hot, n
    <2> QED
      BY <1>3, <1>4, <1>5, <1>6, HoldingFits
  <1>12. /\ r.of["temperature"].hold = hotRun'
         /\ r.code = "TEMPERATURE" <=> hotRun' >= n
    <2> HIDE DEF k, hot, n, r
    <2> QED
      BY <1>1, <1>5, <1>10, <1>11
  <1>13. ASSUME r.code = "SUCCESS"
         PROVE  /\ "behind" \in r.latched <=> config.enabled /\ r.of["behind"].holding
                /\ r.of["behind"].holding =>
                     nearRun' <= r.of["behind"].exit /\ nearRun' < ExitThreshold
    <2>1. /\ "behind" \in checks.latched <=> config.enabled /\ b.holding
          /\ b.holding => nearRun <= b.exit /\ nearRun < ExitThreshold
      BY DEF SafeInv, LatchFollowsChecker, NearInv
    <2>2. CASE (mode # "operate" \/ "exceed" \in r.latched) /\ BehindKept(r)
      <3>1. nearRun' = 0
        BY <1>1, <2>2
      <3>2. r.of["behind"] = b /\ ("behind" \in r.latched <=> "behind" \in checks.latched)
        BY <2>2 DEF BehindKept
      <3>3. b.exit \in Nat
        BY <1>4 DEF CheckerStates
      <3> HIDE DEF r, b
      <3> QED
        BY <1>3, <2>1, <3>1, <3>2, <3>3
    <2>3. CASE ~((mode # "operate" \/ "exceed" \in r.latched) /\ BehindKept(r))
      <3> DEFINE m == Threshold["behind"]
      <3>1. /\ r.of["behind"] = IsHolding(b, far, m)
            /\ config.enabled => ("behind" \in r.latched <=> r.of["behind"].holding)
            /\ ~config.enabled =>
                 /\ ~r.of["behind"].holding
                 /\ "behind" \in r.latched <=> "behind" \in checks.latched
        BY <1>2, <1>13, <2>3 DEF ReadAs
      <3>2. /\ IsHolding(b, far, m).exit \in Nat
            /\ IsHolding(b, far, m).holding /\ ~b.holding => far
            /\ b.holding =>
                /\ IsHolding(b, far, m).exit =
                     (IF far THEN 0 ELSE AtMost(ExitThreshold, b.exit + 1))
                /\ IsHolding(b, far, m).holding <=> IsHolding(b, far, m).exit < ExitThreshold
        <4> HIDE DEF b, far, m
        <4>1. m \in Nat \ {0} /\ b.hold <= m
          BY <1>3, <1>4 DEF m
        <4>2. IsHolding(b, far, m) \in CheckerStates
          BY <1>4, <1>7, <4>1, HoldingFits
        <4>3. IsHolding(b, far, m).exit \in Nat
          BY <4>2 DEF CheckerStates
        <4>4. IsHolding(b, far, m).holding /\ ~b.holding => far
          BY <1>4, <1>7, <4>1, HoldingFits
        <4>5. b.holding =>
                /\ IsHolding(b, far, m).exit =
                     (IF far THEN 0 ELSE AtMost(ExitThreshold, b.exit + 1))
                /\ IsHolding(b, far, m).holding <=> IsHolding(b, far, m).exit < ExitThreshold
          BY <1>4, <1>7, <4>1, HoldingFits
        <4> QED
          BY <4>3, <4>4, <4>5
      <3>3. "behind" \in r.latched <=> config.enabled /\ r.of["behind"].holding
        BY <2>1, <3>1
      <3>4. ASSUME r.of["behind"].holding
            PROVE  nearRun' <= r.of["behind"].exit /\ nearRun' < ExitThreshold
        <4> DEFINE j == IsHolding(b, far, m)
        <4>1. CASE far
          <5>1. nearRun' = 0
            BY <1>1, <4>1
          <5>2. r.of["behind"] = j /\ j.exit \in Nat
            BY <3>1, <3>2
          <5> HIDE DEF r, far, b, m, j
          <5> QED
            BY <1>3, <5>1, <5>2
        <4>2. CASE ~far
          <5>1. b.holding /\ j.holding
            BY <3>1, <3>2, <3>4, <4>2
          <5>2. j.exit = AtMost(ExitThreshold, b.exit + 1) /\ j.exit < ExitThreshold
            BY <3>2, <4>2, <5>1
          <5>3. nearRun' \in {0, AtMost(ExitThreshold, nearRun + 1)}
            BY <1>1
          <5>4. b.exit \in Nat
            BY <1>4 DEF CheckerStates
          <5>5. nearRun <= b.exit /\ r.of["behind"] = j
            BY <2>1, <3>1, <5>1
          <5> HIDE DEF r, far, b, m, j
          <5> QED
            BY <1>3, <1>5, <5>2, <5>3, <5>4, <5>5 DEF AtMost
        <4> QED
          BY <4>1, <4>2
      <3> QED
        BY <3>3, <3>4
    <2> QED
      BY <2>2, <2>3
  <1> HIDE DEF r, n, k, hot, b, far
  <1>14. hotRun' = n => r.code = "TEMPERATURE"
    BY <1>3, <1>9, <1>12
  <1>15. r.code # "TEMPERATURE" => ~r.of["temperature"].holding /\ hotRun' < n
    BY <1>3, <1>9, <1>10, <1>12
  <1> QED
    BY <1>1, <1>2, <1>8, <1>9, <1>12, <1>13, <1>14, <1>15 DEF n

(* A control cycle keeps the invariant: what a read leaves, in each mode.      *)
LEMMA CycleKeeps ==
    ASSUME SafeInv, mode # "alarm", NEW x \in Samples, Read(x),
           config' = config, tele' \in Positions, target' \in Positions,
           \/ /\ checks'.code = "SUCCESS" /\ mode' \in {"operate", "requested", "moving"}
           \/ mode' = "alarm"
    PROVE  SafeInv'
  <1>1. /\ ReadAs(checks', x)
        /\ pos' \in Positions
        /\ hotRun' \in 0 .. Threshold["temperature"] /\ nearRun' \in 0 .. ExitThreshold
        /\ checks'.code # "TEMPERATURE" =>
             /\ ~checks'.of["temperature"].holding
             /\ checks'.of["temperature"].hold = hotRun'
             /\ hotRun' < Threshold["temperature"]
        /\ hotRun' = Threshold["temperature"] => checks'.code = "TEMPERATURE"
        /\ checks'.code = "SUCCESS" =>
             /\ "behind" \in checks'.latched <=>
                  config.enabled /\ checks'.of["behind"].holding
             /\ checks'.of["behind"].holding =>
                  nearRun' <= checks'.of["behind"].exit /\ nearRun' < ExitThreshold
    BY ReadKeeps
  <1>2. Fits(checks') /\ checks'.code \in Codes
    BY <1>1 DEF ReadAs
  <1>3. HeatInv' /\ HeatTrips'
    BY <1>1 DEF HeatInv, HeatTrips
  <1>4. LatchFollowsChecker' /\ NearInv'
    BY <1>1 DEF LatchFollowsChecker, NearInv
  <1>5. config' \in Configurations /\ mode' \in {"operate", "requested", "moving", "alarm"}
    BY DEF SafeInv
  <1> QED
    BY <1>1, <1>2, <1>3, <1>4, <1>5 DEF SafeInv

(* Every step keeps the invariant.                                            *)
LEMMA SafeStep == SafeInv /\ [Next]_vars => SafeInv'
  <1> SUFFICES ASSUME SafeInv, [Next]_vars PROVE SafeInv'
    OBVIOUS
  <1>1. ASSUME NEW t \in Positions, Command(t) PROVE SafeInv'
    BY <1>1 DEF Command, SafeInv, HeatInv, HeatTrips, LatchFollowsChecker, NearInv
  <1>2. CASE Request
    BY <1>2 DEF Request, SafeInv, HeatInv, HeatTrips, LatchFollowsChecker, NearInv
  <1>3. ASSUME NEW x \in Samples, Operate(x) PROVE SafeInv'
    <2>1. Read(x) /\ mode = "operate" /\ mode' = mode /\ config' = config /\ tele' = tele
          /\ checks'.code = "SUCCESS" /\ target' = SlewTo(target, SafeTele(checks', tele))
      BY <1>3 DEF Operate
    <2>2. Fits(checks')
      BY <2>1, ReadKeeps DEF ReadAs
    <2>3. tele \in Positions /\ target \in Positions
      BY DEF SafeInv
    <2>4. target' \in Positions
      BY <2>1, <2>2, <2>3, SafeTeleFacts, SlewFacts
    <2> QED
      BY <2>1, <2>3, <2>4, CycleKeeps
  <1>4. ASSUME NEW x \in Samples, BeginMove(x) PROVE SafeInv'
    <2>1. Read(x) /\ mode = "requested" /\ mode' = "moving" /\ config' = config
          /\ tele' = x.at /\ checks'.code = "SUCCESS" /\ target' = SlewTo(x.at, Home)
      BY <1>4 DEF BeginMove
    <2>2. x.at \in Positions /\ Home \in Positions
      BY ReachAssumption DEF Samples
    <2>3. target' \in Positions
      BY <2>1, <2>2, SlewFacts
    <2> QED
      BY <2>1, <2>2, <2>3, CycleKeeps
  <1>5. ASSUME NEW x \in Samples, ContinueMove(x) PROVE SafeInv'
    <2>1. Read(x) /\ mode = "moving" /\ mode' = mode /\ config' = config
          /\ tele' = tele /\ checks'.code = "SUCCESS" /\ target' = SlewTo(target, Home)
      BY <1>5 DEF ContinueMove
    <2>2. tele \in Positions /\ target \in Positions /\ Home \in Positions
      BY ReachAssumption DEF SafeInv
    <2>3. target' \in Positions
      BY <2>1, <2>2, SlewFacts
    <2> QED
      BY <2>1, <2>2, <2>3, CycleKeeps
  <1>6. ASSUME NEW x \in Samples, EndMove(x) PROVE SafeInv'
    <2>1. Read(x) /\ mode = "moving" /\ mode' = "operate" /\ config' = config
          /\ tele' = x.at /\ checks'.code = "SUCCESS"
          /\ target' = SlewTo(x.at, SafeTele(checks', x.at))
      BY <1>6 DEF EndMove
    <2>2. Fits(checks')
      BY <2>1, ReadKeeps DEF ReadAs
    <2>3. x.at \in Positions
      BY DEF Samples
    <2>4. target' \in Positions
      BY <2>1, <2>2, <2>3, SafeTeleFacts, SlewFacts
    <2> QED
      BY <2>1, <2>3, <2>4, CycleKeeps
  <1>7. ASSUME NEW x \in Samples, Escalate(x) PROVE SafeInv'
    <2>1. Read(x) /\ mode # "alarm" /\ mode' = "alarm" /\ config' = config
          /\ tele' = tele /\ target' = target
      BY <1>7 DEF Escalate
    <2>2. tele \in Positions /\ target \in Positions
      BY DEF SafeInv
    <2> QED
      BY <2>1, <2>2, CycleKeeps
  <1>8. CASE UNCHANGED vars
    BY <1>8 DEF vars, SafeInv, HeatInv, HeatTrips, LatchFollowsChecker, NearInv
  <1> QED
    BY <1>1, <1>2, <1>3, <1>4, <1>5, <1>6, <1>7, <1>8 DEF Next, Cycle

(* While the position-behind latch holds, no step moves the target away from  *)
(* the anchor.                                                                *)
LEMMA NoRatchetStep == SafeInv /\ [Next]_vars => NoRatchet \/ UNCHANGED vars
  <1> SUFFICES ASSUME SafeInv, Next, mode = "operate", mode' = "operate",
                      "behind" \in checks.latched, "behind" \in checks'.latched,
                      "exceed" \notin checks'.latched
               PROVE  Abs(target' - checks'.anchor) <= Abs(target - checks.anchor)
    BY DEF NoRatchet
  <1>1. target \in Positions /\ checks.anchor \in Positions /\ tele \in Positions
    BY DEF SafeInv, Fits, CheckStates
  <1>2. ASSUME UNCHANGED <<target, checks>>
        PROVE  Abs(target' - checks'.anchor) <= Abs(target - checks.anchor)
    BY <1>1, <1>2, ReachAssumption DEF Abs, Positions
  <1>3. ASSUME NEW t \in Positions, Command(t) PROVE UNCHANGED <<target, checks>>
    BY <1>3 DEF Command
  <1>4. ASSUME NEW x \in Samples, Operate(x)
        PROVE  Abs(target' - checks'.anchor) <= Abs(target - checks.anchor)
    <2>1. Read(x) /\ target' = SlewTo(target, SafeTele(checks', tele))
          /\ checks'.code = "SUCCESS"
      BY <1>4 DEF Operate
    <2>2. ReadAs(checks', x) /\ config.enabled
      BY <2>1, ReadKeeps
    <2>3. checks'.anchor = checks.anchor
      BY <2>1, <2>2 DEF ReadAs, BehindKept
    <2>4. Fits(checks')
      BY <2>2 DEF ReadAs
    <2>5. SafeTele(checks', tele) = checks'.anchor
      BY <1>1, <2>2, <2>4, SafeTeleFacts
    <2>6. target' = SlewTo(target, checks.anchor)
      BY <2>1, <2>3, <2>5
    <2> QED
      BY <1>1, <2>3, <2>6, SlewFacts
  <1>5. \/ \E t \in Positions : Command(t)
        \/ \E x \in Samples : Operate(x)
    BY DEF Next, Request, Cycle, BeginMove, ContinueMove, EndMove, Escalate
  <1> QED
    BY <1>2, <1>3, <1>4, <1>5

(* Safe mode is entered, kept and left as its checkers say, for every grid,    *)
(* limit, tolerance, threshold and slew: the heat check stops the arm, the     *)
(* position-behind latch agrees with its checker and is left in time, and      *)
(* meanwhile the target never moves away from the anchor.                      *)
THEOREM SoundSafeMode == Spec => SafeModeIsSound
  <1>1. SafeInv /\ [Next]_vars => SafeInv'
    BY SafeStep
  <1>2. SafeInv /\ [Next]_vars => NoRatchet \/ UNCHANGED vars
    BY NoRatchetStep
  <1>3. (SafeInv => TypeOK /\ HeatTrips /\ LatchFollowsChecker /\ LatchIsLeft)'
    BY SafeStates, PTL
  <1>4. SafeInv /\ [Next]_vars =>
          [NoRatchet /\ (TypeOK /\ HeatTrips /\ LatchFollowsChecker /\ LatchIsLeft)']_vars
    BY <1>1, <1>2, <1>3
  <1> QED
    BY <1>1, <1>4, SafeStart, PTL DEF Spec, SafeModeIsSound

-----------------------------------------------------------------------------
(***************************************************************************)
(* The springs of a leader.                                                *)
(***************************************************************************)

SpringTypes ==
    /\ springSetup \in SpringSetups
    /\ place \in [SpringJoints -> 0..MaxPlace] /\ anchor \in [SpringJoints -> Int]
    /\ rest \in [SpringJoints -> Nat] /\ springTorque \in [SpringJoints -> Int]
    /\ releasedAt \in [SpringJoints -> 0..MaxPlace]

(* A joint that has rested is near its anchor, and while the whole arm rests  *)
(* so is the place where the springs were released: anchors do not move then. *)
RestInv ==
    leading => \A j \in SpringJoints :
        /\ rest[j] > 0 => Magnitude(place[j] - anchor[j]) <= AngleThreshold
        /\ AtRest(rest) => Magnitude(releasedAt[j] - anchor[j]) <= AngleThreshold

SpringInv == SpringTypes /\ RestInv /\ SpringRestores

(* The bounds as numbers.                                                     *)
LEMMA SpringNumbers ==
    /\ MaxPlace \in Nat /\ AngleThreshold \in Nat /\ RestSteps \in Nat
    /\ SpringPreload \in Nat /\ SpringLimit \in Nat /\ SpringConstant \in Nat \ {0}
    /\ SpringHome \in 0..MaxPlace
  BY SpringAssumption

(* calc_spring_force() never points away from the preloaded home and keeps to *)
(* the torque limit.                                                          *)
LEMMA ForceRestores ==
    ASSUME NEW setup \in [config : BOOLEAN, type : {-1, 1, 2}, invert : BOOLEAN, offset : Int],
           NEW p \in 0..MaxPlace
    PROVE  LET f == calc_spring_force(setup, p)
           IN  /\ f \in Int /\ f * Displacement(p) <= 0 /\ Magnitude(f) <= SpringLimit
  <1> DEFINE d == Displacement(p)
             e == -SpringConstant * d
             f == calc_spring_force(setup, p)
  <1>1. d \in Int
    BY SpringNumbers DEF Displacement
  <1>2. f \in {0, Clipped(e)}
    BY DEF calc_spring_force
  <1> HIDE DEF d, f
  <1>3. e \in Int /\ (d > 0 => e < 0) /\ (d < 0 => e > 0) /\ (d = 0 => e = 0)
    BY <1>1, SpringNumbers
  <1> HIDE DEF e
  <1>4. /\ f \in Int /\ Magnitude(f) <= SpringLimit
        /\ (d > 0 => f <= 0) /\ (d < 0 => f >= 0) /\ (d = 0 => f = 0)
    BY <1>1, <1>2, <1>3, SpringNumbers DEF Clipped, Magnitude
  <1>5. f * d <= 0
    <2>1. CASE d > 0
      BY <1>1, <1>4, <2>1
    <2>2. CASE d < 0
      BY <1>1, <1>4, <2>2
    <2>3. CASE d = 0
      BY <1>4, <2>3
    <2> QED
      BY <1>1, <2>1, <2>2, <2>3
  <1> QED
    BY <1>4, <1>5 DEF d, f

(* The invariant holds initially.                                             *)
LEMMA SpringStart == SpringInit => SpringInv
  <1> SUFFICES ASSUME SpringInit PROVE SpringInv
    OBVIOUS
  <1>1. SpringTypes
    BY SpringNumbers DEF SpringInit, SpringTypes
  <1>2. RestInv
    BY DEF SpringInit, RestInv
  <1>3. SpringRestores
    <2>1. Displacement(SpringHome) \in Int
      BY SpringNumbers DEF Displacement
    <2> QED
      BY <2>1, SpringNumbers DEF SpringInit, SpringRestores, Magnitude
  <1> QED
    BY <1>1, <1>2, <1>3 DEF SpringInv

(* A step of the leader keeps it.                                             *)
LEMMA LeaderStepKeeps ==
    ASSUME SpringInv, NEW p \in [SpringJoints -> 0..MaxPlace], LeaderStepTo(p)
    PROVE  SpringInv'
  <1> USE DEF SpringInv
  <1>1. /\ leading /\ leading' = leading /\ springSetup' = springSetup /\ place' = p
        /\ anchor' = [j \in SpringJoints |-> NextAnchor(j, p[j])]
        /\ rest' = [j \in SpringJoints |-> NextRest(j, p[j])]
        /\ springTorque' = [j \in SpringJoints |->
             IF springOn'[j] THEN calc_spring_force(springSetup[j], p[j]) ELSE 0]
        /\ springOn' = SpringMode(rest')
        /\ releasedAt' = IF AtRest(rest') /\ ~AtRest(rest) THEN p ELSE releasedAt
    BY DEF LeaderStepTo
  <1>2. ASSUME NEW j \in SpringJoints
        PROVE  /\ p[j] \in 0..MaxPlace /\ anchor[j] \in Int /\ rest[j] \in Nat
               /\ releasedAt[j] \in 0..MaxPlace
               /\ springSetup[j] \in
                    [config : BOOLEAN, type : {-1, 1, 2}, invert : BOOLEAN, offset : Int]
    BY <1>2, SpringAssumption DEF SpringTypes
  <1>3. ASSUME NEW j \in SpringJoints
        PROVE  /\ anchor'[j] \in Int /\ rest'[j] \in Nat
               /\ rest'[j] > 0 => /\ anchor'[j] = anchor[j]
                                  /\ Magnitude(p[j] - anchor[j]) <= AngleThreshold
    <2>1. anchor'[j] = NextAnchor(j, p[j]) /\ rest'[j] = NextRest(j, p[j])
      BY <1>1, <1>3
    <2> QED
      BY <1>2, <2>1, SpringNumbers DEF NextAnchor, NextRest, Moves, Magnitude
  <1>4. ASSUME NEW j \in SpringJoints
        PROVE  /\ springTorque'[j] \in Int
               /\ springTorque'[j] * Displacement(p[j]) <= 0
               /\ Magnitude(springTorque'[j]) <= SpringLimit
               /\ springTorque'[j] # 0 => springSetup[j].config
    <2> DEFINE f == calc_spring_force(springSetup[j], p[j])
    <2>1. springTorque'[j] = IF springOn'[j] THEN f ELSE 0
      BY <1>1, <1>4
    <2>2. springOn'[j] => springSetup[j].config
      BY <1>1, <1>4 DEF SpringMode
    <2>3. f \in Int /\ f * Displacement(p[j]) <= 0 /\ Magnitude(f) <= SpringLimit
      BY <1>2, <1>4, ForceRestores
    <2>4. Displacement(p[j]) \in Int
      BY <1>2, <1>4, SpringNumbers DEF Displacement
    <2>5. Magnitude(0) <= SpringLimit
      BY SpringNumbers DEF Magnitude
    <2> HIDE DEF f
    <2> QED
      BY <2>1, <2>2, <2>3, <2>4, <2>5
  <1>5. SpringTypes'
    <2>1. anchor' \in [SpringJoints -> Int] /\ rest' \in [SpringJoints -> Nat]
      BY <1>1, <1>3
    <2>2. springTorque' \in [SpringJoints -> Int]
      BY <1>1, <1>4
    <2> QED
      BY <1>1, <2>1, <2>2 DEF SpringTypes
  <1>6. RestInv'
    <2> SUFFICES ASSUME NEW j \in SpringJoints
                 PROVE  /\ rest'[j] > 0 => Magnitude(p[j] - anchor'[j]) <= AngleThreshold
                        /\ AtRest(rest') =>
                             Magnitude(releasedAt'[j] - anchor'[j]) <= AngleThreshold
      BY <1>1 DEF RestInv
    <2>1. rest'[j] > 0 => Magnitude(p[j] - anchor'[j]) <= AngleThreshold
      BY <1>3
    <2>2. AtRest(rest') => rest'[j] > 0
      BY <1>3, SpringNumbers DEF AtRest
    <2>3. ASSUME AtRest(rest')
          PROVE  Magnitude(releasedAt'[j] - anchor'[j]) <= AngleThreshold
      <3>1. CASE ~AtRest(rest)
        BY <1>1, <2>1, <2>2, <2>3, <3>1
      <3>2. CASE AtRest(rest)
        <4>1. releasedAt' = releasedAt /\ anchor'[j] = anchor[j]
          BY <1>1, <1>3, <2>2, <2>3, <3>2
        <4>2. Magnitude(releasedAt[j] - anchor[j]) <= AngleThreshold
          BY <1>1, <3>2 DEF RestInv
        <4> QED
          BY <4>1, <4>2
      <3> QED
        BY <3>1, <3>2
    <2> QED
      BY <2>1, <2>3
  <1>7. SpringRestores'
    BY <1>1, <1>4 DEF SpringRestores
  <1> QED
    BY <1>5, <1>6, <1>7

(* The springs pull home within the torque limit and never on an arm that is  *)
(* not leading, and while they are released no joint has wandered further     *)
(* than twice the threshold: the safety of SpringsLetGo, for every arm.       *)
THEOREM SpringSafety == SpringSpec => [](SpringRestores /\ ReleasedArmRests)
  <1>1. SpringInv /\ [SpringNext]_springVars => SpringInv'
    <2> SUFFICES ASSUME SpringInv, [SpringNext]_springVars PROVE SpringInv'
      OBVIOUS
    <2>1. CASE EnterLeader
      <3>1. /\ ~leading /\ leading' = TRUE /\ springSetup' = springSetup /\ place' = place
            /\ anchor' = [j \in SpringJoints |-> place[j] - springSetup[j].offset]
            /\ rest' = [j \in SpringJoints |-> 0]
            /\ springTorque' = springTorque /\ releasedAt' = releasedAt
        BY <2>1 DEF EnterLeader
      <3>2. \A j \in SpringJoints : place[j] - springSetup[j].offset \in Int
        BY SpringAssumption DEF SpringInv, SpringTypes
      <3>3. SpringTypes'
        BY <3>1, <3>2 DEF SpringInv, SpringTypes
      <3>4. RestInv'
        BY <3>1, SpringNumbers DEF RestInv, AtRest
      <3>5. SpringRestores'
        BY <3>1 DEF SpringInv, SpringRestores
      <3> QED
        BY <3>3, <3>4, <3>5 DEF SpringInv
    <2>2. CASE LeaveLeader
      <3>1. /\ leading' = FALSE /\ springSetup' = springSetup /\ place' = place
            /\ anchor' = anchor /\ rest' = rest /\ releasedAt' = releasedAt
            /\ springTorque' = [j \in SpringJoints |-> 0]
        BY <2>2 DEF LeaveLeader
      <3>2. SpringTypes' /\ RestInv'
        BY <3>1 DEF SpringInv, SpringTypes, RestInv
      <3>3. \A j \in SpringJoints : Displacement(place[j]) \in Int
        BY SpringNumbers DEF SpringInv, SpringTypes, Displacement
      <3>4. SpringRestores'
        BY <3>1, <3>3, SpringNumbers DEF SpringRestores, Magnitude, Displacement
      <3> QED
        BY <3>2, <3>4 DEF SpringInv
    <2>3. CASE LeaderStep
      BY <2>3, LeaderStepKeeps DEF LeaderStep
    <2>4. CASE UNCHANGED springVars
      BY <2>4 DEF springVars, SpringInv, SpringTypes, RestInv, SpringRestores, AtRest
    <2> QED
      BY <2>1, <2>2, <2>3, <2>4 DEF SpringNext
  <1>2. SpringInv => SpringRestores /\ ReleasedArmRests
    <2> SUFFICES ASSUME SpringInv, leading, AtRest(rest), NEW j \in SpringJoints
                 PROVE  Magnitude(place[j] - releasedAt[j]) <= 2 * AngleThreshold
      BY DEF SpringInv, ReleasedArmRests
    <2>1. rest[j] > 0
      BY SpringNumbers DEF AtRest, SpringInv, SpringTypes
    <2>2. /\ Magnitude(place[j] - anchor[j]) <= AngleThreshold
          /\ Magnitude(releasedAt[j] - anchor[j]) <= AngleThreshold
      BY <2>1 DEF SpringInv, RestInv
    <2>3. place[j] \in Int /\ releasedAt[j] \in Int /\ anchor[j] \in Int
      BY DEF SpringInv, SpringTypes
    <2> QED
      BY <2>2, <2>3, SpringNumbers DEF Magnitude
  <1> QED
    BY <1>1, <1>2, SpringStart, PTL DEF SpringSpec

-----------------------------------------------------------------------------
(***************************************************************************)
(* The passive encoder: polls, back-off and restarts.                      *)
(***************************************************************************)

Links ==
    [outstanding : BOOLEAN, age : 0 .. ResponseDeadline, wait : 0 .. RetryBackoff,
     silence : 0 .. FailureAt, restarted : BOOLEAN]

(* What is left of the back-off is what the ticks since it began have not     *)
(* used up; a restart is remembered until the encoder answers.                *)
PollInv ==
    /\ link \in Links /\ inFlight \in 0 .. 2 /\ calm \in 0 .. RetryBackoff
    /\ stage \notin {"read", "failed"} => link.silence <= StartTimeout /\ restarts = 0
    /\ stage # "failed" => calm + link.wait >= RetryBackoff
    /\ restarts \in 0 .. 1 /\ (restarts = 1 => link.restarted)

(* The times as numbers.                                                      *)
LEMMA EncoderTimes ==
    /\ ResponseDeadline \in Nat \ {0} /\ RetryBackoff \in Nat \ {0}
    /\ StartTimeout \in Nat \ {0} /\ RestartAt \in Nat /\ FailureAt \in Nat \ {0}
    /\ RestartAt < FailureAt /\ StartTimeout < FailureAt /\ MaxLate \in Nat
  BY TimeAssumption

(* A tick.                                                                    *)
LEMMA AgedFacts ==
    ASSUME PollInv, stage \in {"probe", "read"}
    PROVE  LET k == Aged(link)
           IN  /\ k \in Links /\ k.outstanding = link.outstanding
               /\ k.restarted = link.restarted
               /\ k.wait = IF link.wait = 0 THEN 0 ELSE link.wait - 1
               /\ stage = "probe" => k.silence = link.silence + 1
  <1> DEFINE a == AtLimit(ResponseDeadline, link.age + 1)
             w == IF link.wait = 0 THEN 0 ELSE link.wait - 1
             s == IF stage = "read" THEN AtLimit(FailureAt, link.silence + 1)
                  ELSE link.silence + 1
  <1>1. Aged(link) = [link EXCEPT !.age = a, !.wait = w, !.silence = s]
    BY DEF Aged
  <1>2. /\ a \in 0 .. ResponseDeadline /\ w \in 0 .. RetryBackoff /\ s \in 0 .. FailureAt
        /\ stage = "probe" => s = link.silence + 1
    BY EncoderTimes DEF PollInv, Links, AtLimit
  <1> HIDE DEF a, w, s
  <1>3. link \in Links
    BY DEF PollInv
  <1> QED
    BY <1>1, <1>2, <1>3 DEF Links, w

(* Back-off, restart, response and poll as they change the link.              *)
LEMMA LinkFacts ==
    ASSUME NEW k \in Links
    PROVE  /\ BackOff(k) \in Links /\ BackOff(k).wait = RetryBackoff
           /\ ~BackOff(k).outstanding /\ BackOff(k).silence = k.silence
           /\ BackOff(k).restarted = k.restarted
           /\ Restart(k) \in Links /\ Restart(k).wait = RetryBackoff
           /\ ~Restart(k).outstanding /\ Restart(k).restarted
           /\ Restart(k).silence = k.silence
           /\ Heard(k) \in Links /\ Heard(k).wait = k.wait /\ ~Heard(k).outstanding
           /\ Heard(k).silence = 0
  <1> DEFINE on == TRUE
             off == FALSE
  <1>1. BackOff(k) = [k EXCEPT !.outstanding = off, !.wait = RetryBackoff]
    BY DEF BackOff
  <1>2. Heard(k) = [k EXCEPT !.outstanding = off, !.silence = 0, !.restarted = off]
    BY DEF Heard
  <1>3. Restart(k) = [BackOff(k) EXCEPT !.restarted = on]
    BY DEF Restart
  <1>0. RetryBackoff \in 0 .. RetryBackoff /\ 0 \in 0 .. FailureAt
    BY EncoderTimes
  <1>4. on \in BOOLEAN /\ off \in BOOLEAN
    OBVIOUS
  <1> HIDE DEF on, off
  <1>5. /\ BackOff(k) \in Links /\ BackOff(k).wait = RetryBackoff
        /\ BackOff(k).silence = k.silence /\ BackOff(k).restarted = k.restarted
        /\ BackOff(k).outstanding = off
    BY <1>0, <1>1, <1>4 DEF Links
  <1>6. /\ Heard(k) \in Links /\ Heard(k).wait = k.wait /\ Heard(k).outstanding = off
        /\ Heard(k).silence = 0
    BY <1>0, <1>2, <1>4 DEF Links
  <1>7. /\ Restart(k) \in Links /\ Restart(k).wait = RetryBackoff
        /\ Restart(k).outstanding = off /\ Restart(k).restarted = on
        /\ Restart(k).silence = k.silence
    BY <1>3, <1>4, <1>5 DEF Links
  <1>8. on /\ ~off
    BY DEF on, off
  <1> QED
    BY <1>5, <1>6, <1>7, <1>8

(* A poll is outstanding.                                                     *)
LEMMA PollFacts ==
    ASSUME PollInv, NEW k \in Links, SendPoll(k)
    PROVE  /\ link' \in Links /\ link'.wait = 1 /\ link'.silence = k.silence
           /\ link'.restarted = k.restarted /\ inFlight' \in 0 .. 2
  <1> DEFINE on == TRUE
  <1>1. link' = [k EXCEPT !.outstanding = on, !.age = 0, !.wait = 1]
        /\ inFlight' \in {inFlight, AtLimit(2, inFlight + 1)}
    BY DEF SendPoll
  <1>2. inFlight' \in 0 .. 2
    BY <1>1 DEF PollInv, AtLimit
  <1>3. on \in BOOLEAN /\ 0 \in 0 .. ResponseDeadline /\ 1 \in 0 .. RetryBackoff
    BY EncoderTimes
  <1> HIDE DEF on
  <1> QED
    BY <1>1, <1>2, <1>3 DEF Links

(* The link a cycle ends with: it is sent a poll only when the back-off is    *)
(* over.                                                                      *)
PollsOrNot(t) ==
    IF PollDue(t) THEN SendPoll(t) ELSE link' = t /\ UNCHANGED inFlight

(* The back-off is over when nothing is left of it.                           *)
LEMMA WaitOver ==
    ASSUME NEW c \in 0 .. RetryBackoff, NEW w, w = 0, c + w >= RetryBackoff
    PROVE  c = RetryBackoff
  BY EncoderTimes

(* What every cycle has to show for the poll invariant and the back-off.      *)
LEMMA CycleFacts ==
    ASSUME PollInv, NEW t \in Links, PollsOrNot(t), calm' \in 0 .. RetryBackoff,
           calm' + t.wait >= RetryBackoff, t.outstanding => link.outstanding
    PROVE  /\ link' \in Links /\ inFlight' \in 0 .. 2
           /\ link'.silence = t.silence /\ link'.restarted = t.restarted
           /\ calm' + link'.wait >= RetryBackoff
           /\ inFlight' > inFlight \/ (link'.age = 0 /\ link'.outstanding /\ ~link.outstanding)
                => calm' = RetryBackoff
  <1>1. CASE PollDue(t)
    <2>1. /\ link' \in Links /\ link'.wait = 1 /\ link'.silence = t.silence
          /\ link'.restarted = t.restarted /\ inFlight' \in 0 .. 2
      BY <1>1, PollFacts DEF PollsOrNot
    <2>2. calm' = RetryBackoff
      <3>1. t.wait = 0
        BY <1>1 DEF PollDue
      <3> QED
        BY <3>1, WaitOver, Zenon
    <2> QED
      BY <2>1, <2>2, EncoderTimes
  <1>2. CASE ~PollDue(t)
    <2>1. link' = t /\ inFlight' = inFlight
      BY <1>2 DEF PollsOrNot
    <2> QED
      BY <2>1 DEF PollInv
  <1> QED
    BY <1>1, <1>2

(* The step of BackOffKept.                                                   *)
BackOffStep ==
    inFlight' > inFlight \/ (link'.age = 0 /\ link'.outstanding /\ ~link.outstanding)
        => calm' = RetryBackoff

(* The ticks since the back-off began.                                        *)
LEMMA CalmFacts ==
    ASSUME PollInv, stage \in {"probe", "read"}
    PROVE  LET c == AtLimit(RetryBackoff, calm + 1)
               w == IF link.wait = 0 THEN 0 ELSE link.wait - 1
           IN  c \in 0 .. RetryBackoff /\ c + w >= RetryBackoff
  BY EncoderTimes DEF PollInv, Links, AtLimit

(* Probing keeps the invariant and the back-off.                              *)
LEMMA ProbeKeeps == PollInv /\ Probe => PollInv' /\ BackOffStep
  <1> SUFFICES ASSUME PollInv, Probe PROVE PollInv' /\ BackOffStep
    OBVIOUS
  <1> DEFINE k == Aged(link)
             t == IF Overdue(k) THEN BackOff(k) ELSE k
             c == AtLimit(RetryBackoff, calm + 1)
  <1>1. /\ stage = "probe" /\ restarts' = restarts
        /\ \/ updated /\ link' = Heard(k) /\ stage' = "read" /\ inFlight' = inFlight
           \/ /\ ~updated /\ k.silence > StartTimeout /\ inFlight' = inFlight
              /\ link' = [k EXCEPT !.silence = 0] /\ stage' = "failed"
           \/ ~updated /\ ~(k.silence > StartTimeout) /\ PollsOrNot(t) /\ stage' = stage
        /\ calm' = IF ~updated /\ Overdue(k) THEN 0 ELSE c
    BY DEF Probe, PollsOrNot
  <1>2. /\ k \in Links /\ k.outstanding = link.outstanding /\ k.restarted = link.restarted
        /\ k.wait = (IF link.wait = 0 THEN 0 ELSE link.wait - 1)
        /\ k.silence = link.silence + 1
    BY <1>1, AgedFacts
  <1>3. c \in 0 .. RetryBackoff /\ c + k.wait >= RetryBackoff
    BY <1>1, <1>2, CalmFacts
  <1>4. /\ BackOff(k) \in Links /\ BackOff(k).wait = RetryBackoff
        /\ ~BackOff(k).outstanding /\ BackOff(k).silence = k.silence
        /\ Heard(k) \in Links /\ Heard(k).wait = k.wait /\ ~Heard(k).outstanding
        /\ Heard(k).silence = 0
    BY <1>2, LinkFacts
  <1>5. restarts = 0 /\ inFlight \in 0 .. 2 /\ link \in Links
    BY <1>1 DEF PollInv
  <1> HIDE DEF k, c
  <1>6. CASE updated /\ link' = Heard(k) /\ stage' = "read" /\ inFlight' = inFlight
    <2>1. calm' = c
      BY <1>1, <1>6
    <2>2. /\ link' \in Links /\ link'.wait = k.wait /\ ~link'.outstanding
      BY <1>4, <1>6
    <2>3. PollInv'
      BY <1>1, <1>3, <1>5, <1>6, <2>1, <2>2 DEF PollInv
    <2>4. BackOffStep
      BY <1>5, <1>6, <2>2 DEF BackOffStep
    <2> QED
      BY <2>3, <2>4
  <1>7. CASE /\ ~updated /\ k.silence > StartTimeout /\ inFlight' = inFlight
             /\ link' = [k EXCEPT !.silence = 0] /\ stage' = "failed"
    <2>1. /\ link' \in Links /\ link'.wait = k.wait /\ link'.outstanding = link.outstanding
      <3>1. 0 \in 0 .. FailureAt
        BY EncoderTimes
      <3> QED
        BY <1>2, <1>7, <3>1 DEF Links
    <2>2. calm' \in 0 .. RetryBackoff
      BY <1>1, <1>3, EncoderTimes
    <2>3. PollInv'
      BY <1>1, <1>5, <1>7, <2>1, <2>2 DEF PollInv
    <2>4. BackOffStep
      BY <1>5, <1>7, <2>1 DEF BackOffStep
    <2> QED
      BY <2>3, <2>4
  <1>8. CASE ~updated /\ ~(k.silence > StartTimeout) /\ PollsOrNot(t) /\ stage' = stage
    <2>1. t \in Links /\ t.silence = k.silence /\ (t.outstanding => link.outstanding)
      BY <1>2, <1>4
    <2>2. calm' \in 0 .. RetryBackoff /\ calm' + t.wait >= RetryBackoff
      <3>1. CASE Overdue(k)
        BY <1>1, <1>4, <1>8, <3>1, EncoderTimes
      <3>2. CASE ~Overdue(k)
        BY <1>1, <1>3, <1>8, <3>2
      <3> QED
        BY <3>1, <3>2
    <2> HIDE DEF t
    <2>3. /\ link' \in Links /\ inFlight' \in 0 .. 2
          /\ link'.silence = t.silence /\ calm' + link'.wait >= RetryBackoff
          /\ BackOffStep
      BY <1>8, <2>1, <2>2, CycleFacts DEF BackOffStep
    <2>4. link'.silence <= StartTimeout
      BY <1>2, <1>8, <2>1, <2>3, EncoderTimes DEF Links
    <2> QED
      BY <1>1, <1>5, <1>8, <2>2, <2>3, <2>4 DEF PollInv
  <1> QED
    BY <1>1, <1>6, <1>7, <1>8

(* Reading keeps them too.                                                    *)
LEMMA ReadEncoderKeeps == PollInv /\ ReadEncoder => PollInv' /\ BackOffStep
  <1> SUFFICES ASSUME PollInv, ReadEncoder PROVE PollInv' /\ BackOffStep
    OBVIOUS
  <1> DEFINE k == Aged(link)
             t == Managed(k)
             c == AtLimit(RetryBackoff, calm + 1)
             restarting == ~updated /\ Restarts(k)
  <1>1. /\ stage = "read"
        /\ restarts' = IF updated THEN 0
                       ELSE IF restarting THEN AtLimit(2, restarts + 1) ELSE restarts
        /\ calm' = IF ~updated /\ (Overdue(k) \/ restarting) THEN 0 ELSE c
        /\ \/ stage' = "failed" /\ link' = t /\ inFlight' = inFlight
           \/ PollsOrNot(t) /\ stage' = stage
    BY DEF ReadEncoder, PollsOrNot
  <1>2. /\ k \in Links /\ k.outstanding = link.outstanding /\ k.restarted = link.restarted
        /\ k.wait = (IF link.wait = 0 THEN 0 ELSE link.wait - 1)
    BY <1>1, AgedFacts
  <1>3. c \in 0 .. RetryBackoff /\ c + k.wait >= RetryBackoff
    BY <1>1, <1>2, CalmFacts
  <1>4. /\ inFlight \in 0 .. 2 /\ link \in Links
        /\ restarts \in 0 .. 1 /\ (restarts = 1 => link.restarted)
    BY DEF PollInv
  <1> HIDE DEF k, c
  <1> DEFINE u == IF Overdue(k) THEN BackOff(k) ELSE k
  <1>5. /\ u \in Links /\ u.restarted = k.restarted /\ u.silence = k.silence
        /\ u.outstanding => link.outstanding
        /\ Overdue(k) => u.wait = RetryBackoff
        /\ ~Overdue(k) => u.wait = k.wait
    BY <1>2, LinkFacts
  <1>6. t = IF updated THEN Heard(k) ELSE IF Restarts(u) THEN Restart(u) ELSE u
    BY <1>1 DEF Managed
  <1>7. Restarts(u) <=> Restarts(k)
    BY <1>5 DEF Restarts
  <1> HIDE DEF u
  <1>8. /\ Restart(u) \in Links /\ Restart(u).wait = RetryBackoff
        /\ ~Restart(u).outstanding /\ Restart(u).restarted
        /\ Heard(k) \in Links /\ Heard(k).wait = k.wait /\ ~Heard(k).outstanding
    BY <1>2, <1>5, LinkFacts
  <1> HIDE DEF t
  <1>9. /\ t \in Links /\ (t.outstanding => link.outstanding)
        /\ calm' \in 0 .. RetryBackoff /\ calm' + t.wait >= RetryBackoff
        /\ restarts' \in 0 .. 1 /\ (restarts' = 1 => t.restarted)
    <2>1. CASE updated
      BY <1>1, <1>3, <1>6, <1>8, <2>1
    <2>2. CASE ~updated /\ Restarts(u)
      <3>1. t = Restart(u) /\ restarting
        BY <1>6, <1>7, <2>2
      <3>2. restarts = 0
        BY <1>2, <1>4, <1>7, <2>2 DEF Restarts
      <3>3. calm' = 0 /\ restarts' = AtLimit(2, restarts + 1)
        BY <1>1, <2>2, <3>1
      <3>4. restarts' = 1
        BY <3>2, <3>3 DEF AtLimit
      <3> QED
        BY <1>8, <3>1, <3>3, <3>4, EncoderTimes
    <2>3. CASE ~updated /\ ~Restarts(u)
      <3>1. t = u /\ ~restarting
        BY <1>6, <1>7, <2>3
      <3>2. restarts' = restarts /\ calm' = IF Overdue(k) THEN 0 ELSE c
        BY <1>1, <2>3, <3>1
      <3>3. restarts' \in 0 .. 1 /\ (restarts' = 1 => t.restarted)
        BY <1>2, <1>4, <1>5, <3>1, <3>2
      <3>4. calm' \in 0 .. RetryBackoff /\ calm' + t.wait >= RetryBackoff
        <4>1. CASE Overdue(k)
          BY <1>5, <3>1, <3>2, <4>1, EncoderTimes
        <4>2. CASE ~Overdue(k)
          BY <1>3, <1>5, <3>1, <3>2, <4>2
        <4> QED
          BY <4>1, <4>2
      <3> QED
        BY <1>5, <3>1, <3>3, <3>4
    <2> QED
      BY <2>1, <2>2, <2>3
  <1> HIDE DEF restarting
  <1>10. CASE stage' = "failed" /\ link' = t /\ inFlight' = inFlight
    <2>1. PollInv'
      BY <1>4, <1>9, <1>10 DEF PollInv
    <2>2. BackOffStep
      BY <1>4, <1>9, <1>10 DEF BackOffStep
    <2> QED
      BY <2>1, <2>2
  <1>11. CASE PollsOrNot(t) /\ stage' = stage
    <2>1. /\ link' \in Links /\ inFlight' \in 0 .. 2 /\ link'.restarted = t.restarted
          /\ calm' + link'.wait >= RetryBackoff /\ BackOffStep
      BY <1>9, <1>11, CycleFacts DEF BackOffStep
    <2> QED
      BY <1>1, <1>9, <1>11, <2>1 DEF PollInv
  <1> QED
    BY <1>1, <1>10, <1>11

-----------------------------------------------------------------------------
(***************************************************************************)
(* The passive encoder: the frequencies of its start-up.                   *)
(***************************************************************************)

Octets == 0 .. 255
Stages == {"version", "survey", "adc", "report", "drain", "probe", "read", "failed"}

FlagTypes ==
    asked \in BOOLEAN /\ guessed \in BOOLEAN /\ answering \in BOOLEAN /\ updated \in BOOLEAN

SetupTypes ==
    /\ compat \in FirmwareCompat /\ stage \in Stages /\ register \in Registers \cup {"set"}
    /\ eeprom \in [Registers -> Octets \cup {Absent}] /\ values \in [Registers -> Octets]
    /\ replies \in Seq(Octets) /\ delayed \in Seq(Octets) /\ lates \in 0 .. MaxLate

(* Which register a stage may be at.                                          *)
PlaceInv ==
    /\ stage = "version" => register = "adcHigh" /\ ~asked
    /\ stage = "survey" => register \in Registers
    /\ stage = "adc" => register \in {"set", "adcHigh", "adcLow"}
    /\ stage = "report" => register \in {"set", "reportHigh", "reportLow"}
    /\ register = "set" => ~asked

(* While no byte was given up on, the only reply there can be is the answer   *)
(* to the register being asked: that is why replies need no identification.   *)
ReplyInv ==
    stage \in {"version", "survey", "adc", "report"} /\ ~guessed =>
        \/ replies = <<>> /\ delayed = <<>>
        \/ /\ asked /\ eeprom[register] # Absent
           /\ \/ replies = <<eeprom[register]>> /\ delayed = <<>>
              \/ replies = <<>> /\ delayed = <<eeprom[register]>>

Known(r) == values[r] = Present(eeprom)[r]

(* The bytes read so far are the encoder's, and a frequency that was passed   *)
(* over is the required one.                                                  *)
KnownInv ==
    ~guessed =>
        /\ stage = "survey" =>
             /\ register \in {"adcLow", "reportHigh", "reportLow"} => Known("adcHigh")
             /\ register \in {"reportHigh", "reportLow"} => Known("adcLow")
             /\ register = "reportLow" => Known("reportHigh")
        /\ stage = "adc" =>
             /\ register = "adcLow" => Known("adcHigh")
             /\ Known("reportHigh") /\ Known("reportLow")
        /\ stage = "report" =>
             /\ register = "reportLow" => Known("reportHigh")
             /\ AdcOf(Present(eeprom)) = RequiredFrequency

SetupInv == SetupTypes /\ PlaceInv /\ ReplyInv /\ KnownInv /\ StartedAsRequired

(* What a byte that is stored leads to.                                       *)
LEMMA StoreKeeps ==
    ASSUME SetupInv, Asking, asked, NEW byte \in Octets, Store(byte), eeprom' = eeprom,
           ~guessed' => ~guessed /\ byte = Present(eeprom)[register]
    PROVE  /\ values' \in [Registers -> Octets] /\ register' \in Registers \cup {"set"}
           /\ stage' \in Stages /\ PlaceInv' /\ KnownInv' /\ StartedAsRequired'
  <1> DEFINE e == Present(eeprom)
  <1>1. /\ values' = [values EXCEPT ![register] = byte] /\ ~asked'
        /\ stage' = AfterRegister(values')[1] /\ register' = AfterRegister(values')[2]
    BY DEF Store
  <1>2. /\ register \in Registers /\ values \in [Registers -> Octets]
        /\ stage \in {"survey", "adc", "report"}
        /\ stage = "survey" => register \in Registers
        /\ stage = "adc" => register \in {"adcHigh", "adcLow"}
        /\ stage = "report" => register \in {"reportHigh", "reportLow"}
    BY DEF SetupInv, SetupTypes, PlaceInv, Asking
  <1>3. /\ values' \in [Registers -> Octets] /\ values'[register] = byte
        /\ \A r \in Registers : r # register => values'[r] = values[r]
    BY <1>1, <1>2
  <1>4. /\ Present(eeprom') = e
    BY DEF Present
  <1>5. /\ AdcOf(e) = Frequency(e["adcHigh"], e["adcLow"])
        /\ ReportOf(e) = Frequency(e["reportHigh"], e["reportLow"])
        /\ AdcOf(values') = Frequency(values'["adcHigh"], values'["adcLow"])
        /\ ReportOf(values') = Frequency(values'["reportHigh"], values'["reportLow"])
    BY DEF AdcOf, ReportOf
  <1>6. ASSUME ~guessed'
        PROVE  /\ values'[register] = e[register]
               /\ \A r \in Registers : r # register /\ Known(r) => values'[r] = e[r]
               /\ KnownInv /\ ~guessed
    BY <1>3, <1>6 DEF Known, SetupInv
  <1>7. "adcHigh" \in Registers /\ "adcLow" \in Registers /\ "reportHigh" \in Registers
        /\ "reportLow" \in Registers
    BY DEF Registers
  <1> DEFINE v == values'
             To(s, r) == stage' = s /\ register' = r
  <1>8. CASE register = "adcHigh"
    <2>1. To(stage, "adcLow")
      BY <1>1, <1>8 DEF AfterRegister
    <2> HIDE DEF e
    <2>2. KnownInv'
      BY <1>2, <1>4, <1>6, <1>7, <1>8, <2>1 DEF KnownInv, Known
    <2>3. PlaceInv' /\ stage' \in Stages
      BY <1>1, <1>2, <2>1, <1>8 DEF PlaceInv, Stages, Registers
    <2>4. StartedAsRequired'
      BY <1>2, <2>1 DEF StartedAsRequired
    <2> QED
      BY <1>3, <1>7, <2>1, <2>2, <2>3, <2>4
  <1>9. CASE register = "reportHigh"
    <2>1. To(stage, "reportLow")
      BY <1>1, <1>9 DEF AfterRegister
    <2> HIDE DEF e
    <2>2. KnownInv'
      BY <1>2, <1>4, <1>6, <1>7, <1>9, <2>1 DEF KnownInv, Known
    <2>3. PlaceInv' /\ stage' \in Stages
      BY <1>1, <1>2, <2>1, <1>9 DEF PlaceInv, Stages, Registers
    <2>4. StartedAsRequired'
      BY <1>2, <2>1 DEF StartedAsRequired
    <2> QED
      BY <1>3, <1>7, <2>1, <2>2, <2>3, <2>4
  <1>10. CASE register = "adcLow" /\ stage = "survey"
    <2>1. To("survey", "reportHigh")
      BY <1>1, <1>10 DEF AfterRegister
    <2> HIDE DEF e
    <2>2. KnownInv'
      BY <1>4, <1>6, <1>7, <1>10, <2>1 DEF KnownInv, Known
    <2> QED
      BY <1>1, <1>3, <1>7, <2>1, <2>2
      DEF PlaceInv, StartedAsRequired, Stages, Registers
  <1>11. CASE register = "adcLow" /\ stage = "adc"
    <2>1. \/ To("failed", "set")
          \/ To("report", "set") /\ AdcOf(v) = RequiredFrequency
          \/ /\ To("drain", "set") /\ AdcOf(v) = RequiredFrequency
             /\ ReportOf(v) = RequiredFrequency
      BY <1>1, <1>11 DEF AfterRegister, AfterAdc
    <2> HIDE DEF e
    <2>2. ~guessed' => AdcOf(v) = AdcOf(e) /\ ReportOf(v) = ReportOf(e)
      BY <1>5, <1>6, <1>7, <1>11 DEF KnownInv
    <2>3. KnownInv'
      BY <1>4, <2>1, <2>2 DEF KnownInv
    <2>4. StartedAsRequired'
      BY <1>4, <2>1, <2>2 DEF StartedAsRequired
    <2> QED
      BY <1>1, <1>3, <2>1, <2>3, <2>4 DEF PlaceInv, Stages
  <1>12. CASE register = "reportLow" /\ stage = "survey"
    <2>1. \/ To("adc", "set")
          \/ To("report", "set") /\ AdcOf(v) = RequiredFrequency
          \/ /\ To("drain", "set") /\ AdcOf(v) = RequiredFrequency
             /\ ReportOf(v) = RequiredFrequency
      BY <1>1, <1>12 DEF AfterRegister, AfterSurvey
    <2> HIDE DEF e
    <2>2. ~guessed' => /\ AdcOf(v) = AdcOf(e) /\ ReportOf(v) = ReportOf(e)
                       /\ v["reportHigh"] = e["reportHigh"] /\ v["reportLow"] = e["reportLow"]
      BY <1>5, <1>6, <1>7, <1>12 DEF KnownInv
    <2>3. KnownInv'
      BY <1>4, <2>1, <2>2 DEF KnownInv, Known
    <2>4. StartedAsRequired'
      BY <1>4, <2>1, <2>2 DEF StartedAsRequired
    <2> QED
      BY <1>1, <1>3, <2>1, <2>3, <2>4 DEF PlaceInv, Stages
  <1>13. CASE register = "reportLow" /\ stage = "report"
    <2>1. \/ To("failed", "set")
          \/ To("drain", "set") /\ ReportOf(v) = RequiredFrequency
      BY <1>1, <1>13 DEF AfterRegister, AfterReport
    <2> HIDE DEF e
    <2>2. ~guessed' => ReportOf(v) = ReportOf(e) /\ AdcOf(e) = RequiredFrequency
      BY <1>5, <1>6, <1>7, <1>13 DEF KnownInv, e
    <2>3. KnownInv'
      BY <2>1 DEF KnownInv
    <2>4. StartedAsRequired'
      BY <1>4, <2>1, <2>2 DEF StartedAsRequired
    <2> QED
      BY <1>1, <1>3, <2>1, <2>3, <2>4 DEF PlaceInv, Stages
  <1> QED
    BY <1>2, <1>8, <1>9, <1>10, <1>11, <1>12, <1>13 DEF Registers

(* Nothing of the start-up changes afterwards.                                *)
LEMMA SetupKept ==
    ASSUME SetupInv, UNCHANGED setupVars, stage' \in Stages,
           \/ stage' = stage
           \/ stage' = "failed"
           \/ stage = "probe" /\ stage' = "read"
           \/ stage = "version" /\ stage' = "survey"
    PROVE  SetupInv'
  <1>1. /\ compat' = compat /\ eeprom' = eeprom /\ register' = register /\ asked' = asked
        /\ values' = values /\ replies' = replies /\ delayed' = delayed /\ lates' = lates
        /\ guessed' = guessed
    BY DEF setupVars
  <1>2. SetupTypes'
    BY <1>1 DEF SetupInv, SetupTypes
  <1>3. PlaceInv'
    BY <1>1 DEF SetupInv, PlaceInv, Registers
  <1>4. ReplyInv'
    BY <1>1 DEF SetupInv, ReplyInv
  <1>5. Present(eeprom') = Present(eeprom)
    BY <1>1
  <1>6. KnownInv'
    BY <1>1, <1>5 DEF SetupInv, KnownInv, Known, PlaceInv
  <1>7. StartedAsRequired'
    BY <1>1, <1>5 DEF SetupInv, StartedAsRequired
  <1> QED
    BY <1>2, <1>3, <1>4, <1>6, <1>7 DEF SetupInv

(* A request.                                                                 *)
LEMMA AskKeeps == SetupInv /\ AskRegister => SetupInv'
  <1> SUFFICES ASSUME SetupInv, AskRegister PROVE SetupInv'
    OBVIOUS
  <1> DEFINE b == eeprom[register]
  <1>1. /\ register # "set" /\ ~asked /\ asked' /\ stage \in {"survey", "adc", "report"}
        /\ compat' = compat /\ eeprom' = eeprom /\ register' = register
        /\ values' = values /\ guessed' = guessed /\ stage' = stage
        /\ \/ b # Absent /\ replies' = Append(replies, b) /\ delayed' = delayed /\ lates' = lates
           \/ /\ b # Absent /\ lates < MaxLate /\ delayed' = Append(delayed, b)
              /\ lates' = lates + 1 /\ replies' = replies
           \/ /\ lates < MaxLate
              /\ lates' = lates + 1 /\ replies' = replies /\ delayed' = delayed
           \/ replies' = replies /\ delayed' = delayed /\ lates' = lates
    BY DEF AskRegister, Asking
  <1>2. register \in Registers /\ b \in Octets \cup {Absent} /\ lates \in 0 .. MaxLate
        /\ replies \in Seq(Octets) /\ delayed \in Seq(Octets)
    BY <1>1 DEF SetupInv, SetupTypes
  <1> HIDE DEF b
  <1>3. SetupTypes'
    <2>1. replies' \in Seq(Octets) /\ delayed' \in Seq(Octets)
      <3>1. b # Absent => b \in Octets
        BY <1>2
      <3>2. b # Absent => /\ Append(replies, b) \in Seq(Octets)
                          /\ Append(delayed, b) \in Seq(Octets)
        BY <1>2, <3>1, AppendProperties
      <3> DEFINE on == Append(replies, b)
                 late == Append(delayed, b)
      <3> HIDE DEF on, late
      <3> QED
        BY <1>1, <1>2, <3>2 DEF on, late
    <2>2. lates' \in 0 .. MaxLate
      BY <1>1, <1>2, EncoderTimes
    <2> QED
      BY <1>1, <2>1, <2>2 DEF SetupInv, SetupTypes
  <1>4. PlaceInv'
    BY <1>1, <1>2 DEF SetupInv, PlaceInv, Registers
  <1>5. ReplyInv'
    <2> SUFFICES ASSUME ~guessed PROVE ReplyInv'
      BY <1>1 DEF ReplyInv
    <2>1. replies = <<>> /\ delayed = <<>>
      BY <1>1 DEF SetupInv, ReplyInv
    <2>2. Append(<<>>, b) = <<b>>
      OBVIOUS
    <2>3. \/ replies' = <<>> /\ delayed' = <<>>
          \/ b # Absent /\ replies' = <<b>> /\ delayed' = <<>>
          \/ b # Absent /\ replies' = <<>> /\ delayed' = <<b>>
      BY <1>1, <2>1, <2>2
    <2>4. b = eeprom'[register']
      BY <1>1 DEF b
    <2> QED
      BY <1>1, <2>3, <2>4 DEF ReplyInv
  <1>6. Present(eeprom') = Present(eeprom)
    BY <1>1
  <1>7. KnownInv'
    BY <1>1, <1>6 DEF SetupInv, KnownInv, Known
  <1>8. StartedAsRequired'
    BY <1>1 DEF StartedAsRequired
  <1> QED
    BY <1>3, <1>4, <1>5, <1>7, <1>8 DEF SetupInv

(* A late reply arrives.                                                      *)
LEMMA DeliverKeeps == SetupInv /\ DeliverReply => SetupInv'
  <1> SUFFICES ASSUME SetupInv, DeliverReply PROVE SetupInv'
    OBVIOUS
  <1>1. /\ delayed # <<>> /\ replies' = Append(replies, Head(delayed))
        /\ delayed' = Tail(delayed) /\ compat' = compat /\ eeprom' = eeprom
        /\ register' = register /\ asked' = asked /\ values' = values /\ lates' = lates
        /\ guessed' = guessed /\ stage' = stage
    BY DEF DeliverReply
  <1>2. SetupTypes'
    <2>1. replies' \in Seq(Octets) /\ delayed' \in Seq(Octets)
      BY <1>1 DEF SetupInv, SetupTypes
    <2> QED
      BY <1>1, <2>1 DEF SetupInv, SetupTypes
  <1>3. ReplyInv'
    <2> SUFFICES ASSUME ~guessed, stage \in {"version", "survey", "adc", "report"}
                 PROVE  ReplyInv'
      BY <1>1 DEF ReplyInv
    <2> DEFINE b == eeprom[register]
    <2>1. asked /\ b # Absent /\ replies = <<>> /\ delayed = <<b>>
      BY <1>1 DEF SetupInv, ReplyInv
    <2> HIDE DEF b
    <2>2. replies' = <<b>> /\ delayed' = <<>>
      BY <1>1, <2>1
    <2> QED
      BY <1>1, <2>1, <2>2 DEF ReplyInv, b
  <1>4. PlaceInv'
    BY <1>1 DEF SetupInv, PlaceInv
  <1>5. Present(eeprom') = Present(eeprom)
    BY <1>1
  <1>6. KnownInv'
    BY <1>1, <1>5 DEF SetupInv, KnownInv, Known
  <1>7. StartedAsRequired'
    BY <1>1, <1>5 DEF SetupInv, StartedAsRequired
  <1> QED
    BY <1>2, <1>3, <1>4, <1>6, <1>7 DEF SetupInv

(* A reply is taken for the register being asked.                             *)
LEMMA TakeKeeps == SetupInv /\ TakeReply => SetupInv'
  <1> SUFFICES ASSUME SetupInv, TakeReply PROVE SetupInv'
    OBVIOUS
  <1> DEFINE byte == Head(replies)
  <1>1. /\ Asking /\ asked /\ replies # <<>> /\ Store(byte) /\ replies' = Tail(replies)
        /\ compat' = compat /\ eeprom' = eeprom /\ delayed' = delayed /\ lates' = lates
        /\ guessed' = guessed
    BY DEF TakeReply
  <1>2. byte \in Octets /\ replies' \in Seq(Octets)
    BY <1>1 DEF SetupInv, SetupTypes
  <1>3. stage \in {"survey", "adc", "report"} /\ register \in Registers
    BY <1>1 DEF Asking, SetupInv, SetupTypes, PlaceInv
  <1>4. ASSUME ~guessed
        PROVE  /\ byte = Present(eeprom)[register] /\ replies' = <<>> /\ delayed = <<>>
    <2> DEFINE b == eeprom[register]
    <2>1. b # Absent /\ replies = <<b>> /\ delayed = <<>>
      BY <1>1, <1>3, <1>4 DEF SetupInv, ReplyInv
    <2>2. Present(eeprom)[register] = b
      BY <1>3, <2>1 DEF Present
    <2> HIDE DEF b
    <2> QED
      BY <1>1, <2>1, <2>2
  <1> HIDE DEF byte
  <1>5. /\ values' \in [Registers -> Octets] /\ register' \in Registers \cup {"set"}
        /\ stage' \in Stages /\ PlaceInv' /\ KnownInv' /\ StartedAsRequired'
    BY <1>1, <1>2, <1>4, StoreKeeps
  <1>6. SetupTypes'
    BY <1>1, <1>2, <1>5 DEF SetupInv, SetupTypes
  <1>7. ReplyInv'
    BY <1>1, <1>4 DEF ReplyInv
  <1> QED
    BY <1>5, <1>6, <1>7 DEF SetupInv

(* No reply comes.                                                            *)
LEMMA TimeoutKeeps == SetupInv /\ ReplyTimesOut => SetupInv'
  <1> SUFFICES ASSUME SetupInv, ReplyTimesOut PROVE SetupInv'
    OBVIOUS
  <1>1. /\ Asking /\ asked /\ replies = <<>>
        /\ guessed' = (guessed \/ eeprom[register] # Absent)
        /\ compat' = compat /\ eeprom' = eeprom /\ replies' = replies
        /\ delayed' = delayed /\ lates' = lates
        /\ \/ Store(Unset)
           \/ stage' = "failed" /\ ~asked' /\ values' = values /\ register' = register
    BY DEF ReplyTimesOut
  <1>2. stage \in {"survey", "adc", "report"} /\ register \in Registers
    BY <1>1 DEF Asking, SetupInv, SetupTypes, PlaceInv
  <1>3. Unset \in Octets
    BY LayoutAssumption DEF Octets
  <1>4. ~guessed' => ~guessed /\ eeprom[register] = Absent
    BY <1>1
  <1>5. eeprom[register] = Absent => Present(eeprom)[register] = Unset
    BY <1>2 DEF Present
  <1>6. ~guessed' => delayed = <<>>
    BY <1>1, <1>2, <1>4 DEF SetupInv, ReplyInv
  <1>7. ReplyInv'
    BY <1>1, <1>6 DEF ReplyInv
  <1>8. CASE Store(Unset)
    <2>1. /\ values' \in [Registers -> Octets] /\ register' \in Registers \cup {"set"}
          /\ stage' \in Stages /\ PlaceInv' /\ KnownInv' /\ StartedAsRequired'
      BY <1>1, <1>3, <1>4, <1>5, <1>8, StoreKeeps
    <2>2. SetupTypes'
      BY <1>1, <2>1 DEF SetupInv, SetupTypes
    <2> QED
      BY <1>7, <2>1, <2>2 DEF SetupInv
  <1>9. CASE stage' = "failed" /\ ~asked' /\ values' = values /\ register' = register
    <2>1. SetupTypes'
      BY <1>1, <1>9 DEF SetupInv, SetupTypes, Stages
    <2>2. PlaceInv' /\ KnownInv' /\ StartedAsRequired'
      BY <1>9 DEF PlaceInv, KnownInv, StartedAsRequired
    <2> QED
      BY <1>7, <2>1, <2>2 DEF SetupInv
  <1> QED
    BY <1>1, <1>8, <1>9

(* The correction of a frequency.                                             *)
LEMMA SetKeeps ==
    ASSUME SetupInv, NEW stored \in BOOLEAN, SetFrequency(stored) PROVE SetupInv'
  <1> DEFINE high == IF stage = "adc" THEN "adcHigh" ELSE "reportHigh"
             low == IF stage = "adc" THEN "adcLow" ELSE "reportLow"
             h == IF eeprom[high] = Absent THEN Absent ELSE 0
  <1>1. /\ stage \in {"adc", "report"} /\ register = "set" /\ register' = high
        /\ \/ eeprom' = [eeprom EXCEPT ![low] = RequiredFrequency, ![high] = h]
           \/ eeprom' = eeprom
        /\ compat' = compat /\ asked' = asked /\ values' = values /\ replies' = replies
        /\ delayed' = delayed /\ lates' = lates /\ guessed' = guessed /\ stage' = stage
    BY DEF SetFrequency
  <1>2. eeprom \in [Registers -> Octets \cup {Absent}]
    BY DEF SetupInv, SetupTypes
  <1>3. high \in Registers /\ low \in Registers /\ high # low
    BY DEF Registers
  <1>4. RequiredFrequency \in Octets /\ h \in Octets \cup {Absent}
    BY LayoutAssumption DEF Octets
  <1>5. ~asked /\ ~asked'
    BY <1>1 DEF SetupInv, PlaceInv
  <1> HIDE DEF h
  <1>6. eeprom' \in [Registers -> Octets \cup {Absent}]
    BY <1>1, <1>2, <1>3, <1>4
  <1>7. SetupTypes'
    BY <1>1, <1>3, <1>6 DEF SetupInv, SetupTypes
  <1>8. PlaceInv'
    BY <1>1, <1>5 DEF PlaceInv
  <1>9. ReplyInv'
    BY <1>1, <1>5 DEF SetupInv, ReplyInv
  <1>10. ASSUME NEW r \in Registers, r # high, r # low
         PROVE  Present(eeprom')[r] = Present(eeprom)[r]
    <2>1. eeprom'[r] = eeprom[r]
      BY <1>1, <1>2, <1>3, <1>10
    <2> QED
      BY <1>10, <2>1 DEF Present
  <1>11. KnownInv'
    <2> SUFFICES ASSUME ~guessed PROVE KnownInv'
      BY <1>1 DEF KnownInv
    <2>1. CASE stage = "adc"
      <3>1. Present(eeprom')["reportHigh"] = Present(eeprom)["reportHigh"]
            /\ Present(eeprom')["reportLow"] = Present(eeprom)["reportLow"]
        BY <1>10, <2>1 DEF Registers
      <3>2. Known("reportHigh") /\ Known("reportLow")
        BY <2>1 DEF SetupInv, KnownInv
      <3> QED
        BY <1>1, <2>1, <3>1, <3>2 DEF KnownInv, Known
    <2>2. CASE stage = "report"
      <3>1. Present(eeprom')["adcHigh"] = Present(eeprom)["adcHigh"]
            /\ Present(eeprom')["adcLow"] = Present(eeprom)["adcLow"]
        BY <1>10, <2>2 DEF Registers
      <3>2. AdcOf(Present(eeprom')) = RequiredFrequency
        BY <2>2, <3>1 DEF SetupInv, KnownInv, AdcOf
      <3> QED
        BY <1>1, <2>2, <3>2 DEF KnownInv
    <2> QED
      BY <1>1, <2>1, <2>2
  <1>12. StartedAsRequired'
    BY <1>1 DEF StartedAsRequired
  <1> QED
    BY <1>7, <1>8, <1>9, <1>11, <1>12 DEF SetupInv

(* The drain.                                                                 *)
LEMMA DrainKeeps == SetupInv /\ DrainFrames => SetupInv'
  <1> SUFFICES ASSUME SetupInv, DrainFrames PROVE SetupInv'
    OBVIOUS
  <1>1. /\ stage = "drain" /\ stage' = "probe" /\ replies' = <<>> /\ delayed' = <<>>
        /\ compat' = compat /\ eeprom' = eeprom /\ register' = register /\ asked' = asked
        /\ values' = values /\ lates' = lates /\ guessed' = guessed
    BY DEF DrainFrames
  <1>2. SetupTypes'
    BY <1>1 DEF SetupInv, SetupTypes, Stages
  <1>3. PlaceInv' /\ ReplyInv' /\ KnownInv'
    BY <1>1 DEF SetupInv, PlaceInv, ReplyInv, KnownInv
  <1>4. StartedAsRequired'
    BY <1>1 DEF SetupInv, StartedAsRequired
  <1> QED
    BY <1>2, <1>3, <1>4 DEF SetupInv

EncoderInv == FlagTypes /\ SetupInv /\ PollInv

(* The flags stay truth values.                                               *)
LEMMA FlagStep == FlagTypes /\ [EncoderNext]_encoderVars => FlagTypes'
  <1> SUFFICES ASSUME FlagTypes, [EncoderNext]_encoderVars PROVE FlagTypes'
    OBVIOUS
  <1> USE DEF FlagTypes, setupVars, pollVars
  <1>1. CASE VersionAccepted
    BY <1>1 DEF VersionAccepted
  <1>2. CASE AskRegister
    BY <1>2 DEF AskRegister
  <1>3. CASE DeliverReply
    BY <1>3 DEF DeliverReply
  <1>4. CASE TakeReply
    BY <1>4 DEF TakeReply, Store
  <1>5. CASE ReplyTimesOut
    <2>1. guessed' \in BOOLEAN
      BY <1>5 DEF ReplyTimesOut
    <2>2. asked' \in BOOLEAN
      BY <1>5 DEF ReplyTimesOut, Store
    <2> QED
      BY <1>5, <2>1, <2>2 DEF ReplyTimesOut
  <1>6. ASSUME NEW stored \in BOOLEAN, SetFrequency(stored) PROVE FlagTypes'
    BY <1>6 DEF SetFrequency
  <1>7. CASE DrainFrames
    BY <1>7 DEF DrainFrames
  <1>8. CASE EncoderFails
    BY <1>8 DEF EncoderFails
  <1>9. CASE Probe
    BY <1>9 DEF Probe
  <1>10. CASE ReadEncoder
    BY <1>10 DEF ReadEncoder
  <1>11. CASE StoreAnswer
    BY <1>11 DEF StoreAnswer
  <1>12. CASE FallSilent
    BY <1>12 DEF FallSilent
  <1>13. CASE UNCHANGED encoderVars
    BY <1>13 DEF encoderVars
  <1> QED
    BY <1>1, <1>2, <1>3, <1>4, <1>5, <1>6, <1>7, <1>8, <1>9, <1>10, <1>11, <1>12, <1>13
    DEF EncoderNext

(* Every step keeps the start-up's invariant.                                 *)
LEMMA SetupStep == SetupInv /\ [EncoderNext]_encoderVars => SetupInv'
  <1> SUFFICES ASSUME SetupInv, [EncoderNext]_encoderVars PROVE SetupInv'
    OBVIOUS
  <1>1. CASE VersionAccepted
    BY <1>1, SetupKept DEF VersionAccepted, Stages
  <1>2. CASE EncoderFails
    BY <1>2, SetupKept DEF EncoderFails, Stages
  <1>3. CASE Probe
    <2>1. UNCHANGED setupVars /\ stage = "probe" /\ stage' \in {"probe", "read", "failed"}
      BY <1>3 DEF Probe
    <2> QED
      BY <2>1, SetupKept DEF Stages
  <1>4. CASE ReadEncoder
    <2>1. UNCHANGED setupVars /\ stage = "read" /\ stage' \in {"read", "failed"}
      BY <1>4 DEF ReadEncoder
    <2> QED
      BY <2>1, SetupKept DEF Stages
  <1>5. CASE StoreAnswer
    BY <1>5, SetupKept DEF StoreAnswer, SetupInv, SetupTypes
  <1>6. CASE FallSilent
    BY <1>6, SetupKept DEF FallSilent, SetupInv, SetupTypes
  <1>7. CASE UNCHANGED encoderVars
    BY <1>7, SetupKept DEF encoderVars, SetupInv, SetupTypes
  <1> QED
    BY <1>1, <1>2, <1>3, <1>4, <1>5, <1>6, <1>7, AskKeeps, DeliverKeeps, TakeKeeps,
       TimeoutKeeps, SetKeeps, DrainKeeps DEF EncoderNext

(* Every step keeps the polls' invariant and the back-off.                    *)
LEMMA PollStep ==
    SetupInv /\ PollInv /\ [EncoderNext]_encoderVars =>
        PollInv' /\ (BackOffStep \/ UNCHANGED encoderVars)
  <1> SUFFICES ASSUME SetupInv, PollInv, [EncoderNext]_encoderVars
               PROVE  PollInv' /\ (BackOffStep \/ UNCHANGED encoderVars)
    OBVIOUS
  <1>1. ASSUME UNCHANGED pollVars,
               \/ stage' = stage
               \/ stage' = "failed"
               \/ stage \notin {"read", "failed"} /\ stage' \notin {"read", "failed"}
        PROVE  PollInv' /\ BackOffStep
    <2>1. /\ link' = link /\ inFlight' = inFlight /\ calm' = calm /\ restarts' = restarts
      BY <1>1 DEF pollVars
    <2>2. PollInv'
      BY <1>1, <2>1 DEF PollInv
    <2>3. BackOffStep
      BY <2>1 DEF PollInv, BackOffStep
    <2> QED
      BY <2>2, <2>3
  <1>2. ASSUME VersionAccepted \/ EncoderFails \/ AskRegister \/ DeliverReply \/ DrainFrames
               \/ \E stored \in BOOLEAN : SetFrequency(stored)
        PROVE  PollInv' /\ BackOffStep
    <2>1. UNCHANGED pollVars
      BY <1>2 DEF VersionAccepted, EncoderFails, AskRegister, DeliverReply, DrainFrames,
         SetFrequency
    <2>2. \/ stage' = stage
          \/ stage' = "failed"
          \/ stage \notin {"read", "failed"} /\ stage' \notin {"read", "failed"}
      BY <1>2 DEF VersionAccepted, EncoderFails, AskRegister, DeliverReply, DrainFrames,
         SetFrequency
    <2> QED
      BY <1>1, <2>1, <2>2
  <1>3. CASE TakeReply \/ ReplyTimesOut
    <2>1. UNCHANGED pollVars /\ stage \in {"survey", "adc", "report"}
          /\ register \in Registers
      BY <1>3 DEF TakeReply, ReplyTimesOut, Asking, SetupInv, SetupTypes, PlaceInv
    <2>2. \/ stage' = "failed"
          \/ \E byte : Store(byte)
      BY <1>3 DEF TakeReply, ReplyTimesOut
    <2>3. ASSUME NEW byte, Store(byte) PROVE stage' # "read"
      <3>1. stage' = AfterRegister(values')[1]
        BY <2>3 DEF Store
      <3>2. AfterRegister(values')[1] \in
              {stage, "adc", "report", "drain", "failed"}
        <4>1. \/ register = "adcHigh" \/ register = "reportHigh"
              \/ register = "adcLow" /\ stage = "survey"
              \/ register = "adcLow" /\ stage = "adc"
              \/ register = "reportLow" /\ stage = "survey"
              \/ register = "reportLow" /\ stage = "report"
          BY <2>1 DEF SetupInv, PlaceInv, Registers
        <4> QED
          BY <4>1 DEF AfterRegister, AfterSurvey, AfterAdc, AfterReport
      <3> QED
        BY <2>1, <3>1, <3>2
    <2> QED
      BY <1>1, <2>1, <2>2, <2>3
  <1>4. CASE Probe
    BY <1>4, ProbeKeeps
  <1>5. CASE ReadEncoder
    BY <1>5, ReadEncoderKeeps
  <1>6. CASE StoreAnswer \/ FallSilent
    <2>1. /\ link' = link /\ calm' = calm /\ restarts' = restarts /\ stage' = stage
          /\ inFlight' = 0 \/ (inFlight > 0 /\ inFlight' = inFlight - 1)
      BY <1>6 DEF StoreAnswer, FallSilent
    <2>2. inFlight \in 0 .. 2 /\ inFlight' \in 0 .. 2 /\ ~(inFlight' > inFlight)
      BY <2>1 DEF PollInv
    <2>3. PollInv'
      BY <2>1, <2>2 DEF PollInv
    <2>4. BackOffStep
      BY <2>1, <2>2 DEF BackOffStep
    <2> QED
      BY <2>3, <2>4
  <1>7. CASE UNCHANGED encoderVars
    <2>1. PollInv'
      BY <1>7 DEF PollInv, encoderVars, pollVars
    <2> QED
      BY <1>7, <2>1
  <1> QED
    BY <1>2, <1>3, <1>4, <1>5, <1>6, <1>7 DEF EncoderNext

(* The invariant holds initially.                                             *)
LEMMA EncoderStart == EncoderInit => EncoderInv
  <1> SUFFICES ASSUME EncoderInit PROVE EncoderInv
    OBVIOUS
  <1>1. FlagTypes
    BY DEF EncoderInit, FlagTypes
  <1>2. SetupInv
    <2>1. eeprom \in [Registers -> Octets \cup {Absent}]
      BY LayoutAssumption DEF EncoderInit, Octets
    <2>2. values \in [Registers -> Octets]
      BY DEF EncoderInit, Octets
    <2>3. /\ compat \in FirmwareCompat /\ stage = "version" /\ register = "adcHigh"
          /\ ~asked /\ replies = <<>> /\ delayed = <<>> /\ lates = 0
      BY DEF EncoderInit
    <2>4. SetupTypes
      BY <2>1, <2>2, <2>3, EncoderTimes DEF SetupTypes, Stages, Registers
    <2>5. PlaceInv /\ ReplyInv /\ KnownInv /\ StartedAsRequired
      BY <2>3 DEF PlaceInv, ReplyInv, KnownInv, StartedAsRequired
    <2> QED
      BY <2>4, <2>5 DEF SetupInv
  <1>3. PollInv
    <2> DEFINE off == FALSE
    <2>1. link = [outstanding |-> off, age |-> 0, wait |-> 0, silence |-> 0,
                  restarted |-> off]
      BY DEF EncoderInit
    <2>2. off \in BOOLEAN /\ 0 \in 0 .. ResponseDeadline /\ 0 \in 0 .. RetryBackoff
          /\ 0 \in 0 .. FailureAt
      BY EncoderTimes
    <2>3. stage = "version" /\ inFlight = 0 /\ restarts = 0 /\ calm = RetryBackoff
      BY DEF EncoderInit
    <2> HIDE DEF off
    <2>4. link \in Links /\ link.wait = 0 /\ link.silence = 0
      BY <2>1, <2>2 DEF Links
    <2> QED
      BY <2>3, <2>4, EncoderTimes DEF PollInv
  <1> QED
    BY <1>1, <1>2, <1>3 DEF EncoderInv

(* A started encoder works with the required frequencies unless a byte was    *)
(* given up on, it is restarted at most once between two responses, and no    *)
(* poll is sent within the back-off: the safety of EncoderIsKept, for every   *)
(* layout of the EEPROM, deadline, back-off and number of late replies.       *)
THEOREM EncoderSafety ==
    EncoderSpec => [](EncoderTypeOK /\ StartedAsRequired /\ OneRestart) /\ BackOffKept
  <1>1. EncoderInv /\ [EncoderNext]_encoderVars => EncoderInv'
    BY FlagStep, SetupStep, PollStep DEF EncoderInv
  <1>2. EncoderInv /\ [EncoderNext]_encoderVars => [BackOffStep]_encoderVars
    BY PollStep DEF EncoderInv
  <1>3. EncoderInv => EncoderTypeOK /\ StartedAsRequired /\ OneRestart
    <2> SUFFICES ASSUME EncoderInv PROVE EncoderTypeOK /\ StartedAsRequired /\ OneRestart
      OBVIOUS
    <2>1. /\ link.outstanding \in BOOLEAN /\ link.restarted \in BOOLEAN
      BY DEF EncoderInv, PollInv, Links
    <2>2. /\ link.age \in 0 .. ResponseDeadline /\ link.wait \in 0 .. RetryBackoff
          /\ link.silence \in 0 .. FailureAt /\ inFlight \in 0 .. 2
          /\ calm \in 0 .. RetryBackoff
      BY DEF EncoderInv, PollInv, Links
    <2>3. restarts \in 0 .. 2 /\ restarts <= 1
      BY DEF EncoderInv, PollInv
    <2>4. /\ asked \in BOOLEAN /\ guessed \in BOOLEAN
          /\ answering \in BOOLEAN /\ updated \in BOOLEAN
      BY DEF EncoderInv, FlagTypes
    <2>5. EncoderTypeOK
      BY <2>1, <2>2, <2>3, <2>4
      DEF EncoderInv, SetupInv, SetupTypes, EncoderTypeOK, Octets, Stages
    <2> QED
      BY <2>3, <2>5 DEF OneRestart, EncoderInv, SetupInv
  <1>4. EncoderInit /\ [][EncoderNext]_encoderVars =>
          [](EncoderTypeOK /\ StartedAsRequired /\ OneRestart) /\ [][BackOffStep]_encoderVars
    BY <1>1, <1>2, <1>3, EncoderStart, PTL
  <1> QED
    BY <1>4, PTL DEF EncoderSpec, BackOffKept, BackOffStep
=============================================================================
