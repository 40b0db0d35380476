---------------------------- MODULE Stage2Proofs ----------------------------
(* The emission of Stage-2 tables is exact, for every size of a table, every *)
(* layout that validate accepts and every history of the tables reused.      *)
EXTENDS Stage2, FiniteSetTheorems, TLAPS

-----------------------------------------------------------------------------
(* Addresses and their indices.                                              *)

(* Quotient and remainder.                                                   *)
LEMMA Quotient ==
    ASSUME NEW n \in Nat \ {0}, NEW a \in Nat
    PROVE  a % n \in 0..(n - 1) /\ a \div n \in Nat /\ a = n * (a \div n) + (a % n)
<1>1. a % n \in 0..(n - 1)
  OBVIOUS
<1>2. a \div n \in Int
  OBVIOUS
<1>3. a = n * (a \div n) + (a % n)
  OBVIOUS
<1> DEFINE q == a \div n
<1>4. q >= 0
  <2> SUFFICES ASSUME q <= -1 PROVE FALSE
    BY <1>2
  <2> HIDE DEF q
  <2>1. n * q <= -n
    BY <1>2 DEF q
  <2> QED BY <1>1, <1>3, <2>1 DEF q
<1> QED BY <1>1, <1>2, <1>3, <1>4

(* They are unique.                                                          *)
LEMMA QuotientUnique ==
    ASSUME NEW n \in Nat \ {0}, NEW a \in Nat, NEW q \in Int, NEW r \in 0..(n - 1), a = n * q + r
    PROVE  a % n = r /\ a \div n = q
<1> DEFINE e == a \div n
           s == a % n
           d == e - q
<1>1. s \in 0..(n - 1) /\ e \in Nat /\ a = n * e + s
  <2>1. \A c \in Nat : c % n \in 0..(n - 1) /\ c \div n \in Nat /\ c = n * (c \div n) + (c % n)
    BY Quotient
  <2> QED BY <2>1
<1> HIDE DEF e, s
<1>2. n * d = r - s /\ d \in Int
  <2>1. n * (e - q) = n * e - n * q /\ n * e \in Int /\ n * q \in Int
    BY <1>1
  <2> QED BY <1>1, <2>1
<1> HIDE DEF d
<1>3. d = 0
  <2>1. CASE d >= 1
    <3>1. n * d >= n
      BY <1>2, <2>1
    <3> QED BY <1>1, <1>2, <3>1
  <2>2. CASE d <= -1
    <3>1. n * d <= -n
      BY <1>2, <2>2
    <3> QED BY <1>1, <1>2, <3>1
  <2> QED BY <1>2, <2>1, <2>2
<1>4. s = r /\ e = q
  BY <1>1, <1>2, <1>3 DEF d
<1> QED BY <1>4 DEF e, s

(* An address is put together from its three indices in one way only.        *)
LEMMA DigitsUnique ==
    ASSUME NEW i \in Idx, NEW j \in Idx, NEW k \in Idx,
           NEW a \in Nat, a = L1EntrySize * i + BlockSize * j + k
    PROVE  /\ L1Of(a) = i /\ L2Of(a) = j /\ L3Of(a) = k /\ a < Addressable
           /\ a % L1EntrySize = BlockSize * j + k
<1> DEFINE n == TableEntries
           B == n * n
           r == n * j + k
           u == n * i + j
<1>1. n \in Nat \ {0} /\ i \in 0..(n - 1) /\ j \in 0..(n - 1) /\ k \in 0..(n - 1)
  BY Stage2Assumption DEF Idx
<1>2. a = B * i + n * j + k
  BY DEF L1EntrySize, BlockSize
<1> HIDE DEF n
<1>3. B \in Nat \ {0} /\ B >= n
  BY <1>1
<1>4. r \in 0..(B - 1)
  <2>1. n * j <= n * (n - 1)
    BY <1>1
  <2>2. n * (n - 1) = B - n
    BY <1>1
  <2>3. n * j >= 0 /\ n * j \in Int
    BY <1>1
  <2> HIDE DEF B
  <2> QED BY <1>1, <1>3, <2>1, <2>2, <2>3
<1>5. u \in Nat /\ a = n * u + k
  <2>1. n * u = n * (n * i) + n * j
    BY <1>1
  <2>2. n * (n * i) = B * i
    BY <1>1
  <2>3. u \in Nat
    BY <1>1
  <2> HIDE DEF u
  <2> QED BY <1>1, <1>2, <2>1, <2>2, <2>3
<1>6. a \div n = u /\ a % n = k
  <2> HIDE DEF u
  <2> QED BY <1>1, <1>5, QuotientUnique
<1>7. u % n = j
  <2>1. u = n * i + j /\ i \in Int
    BY <1>1
  <2> HIDE DEF u
  <2> QED BY <1>1, <1>5, <2>1, QuotientUnique
<1>8. a \div B = i /\ a % B = r
  <2>1. a = B * i + r
    BY <1>1, <1>2, <1>3
  <2> HIDE DEF B, r
  <2> QED BY <1>1, <1>3, <1>4, <2>1, QuotientUnique
<1>9. i % n = i
  BY <1>1
<1>10. a < n * B
  <2>1. B * i <= B * (n - 1)
    BY <1>1, <1>3
  <2>2. B * (n - 1) = n * B - B
    BY <1>1, <1>3
  <2>3. a = B * i + r
    BY <1>1, <1>2, <1>3
  <2>4. B * i \in Int /\ n * B \in Int /\ B * (n - 1) \in Int
    BY <1>1, <1>3
  <2> HIDE DEF B, r
  <2> QED BY <1>3, <1>4, <2>1, <2>2, <2>3, <2>4
<1>11. L1EntrySize = B /\ BlockSize = n /\ Addressable = n * B
  BY DEF n, L1EntrySize, BlockSize, Addressable
<1>12. L1Of(a) = i
  BY <1>8, <1>9, <1>11 DEF L1Of, n
<1>13. L2Of(a) = j
  BY <1>6, <1>7, <1>11 DEF L2Of, n
<1>14. L3Of(a) = k
  BY <1>6 DEF L3Of, n
<1> QED BY <1>8, <1>10, <1>11, <1>12, <1>13, <1>14

(* Every address has its three indices.                                      *)
LEMMA Digits ==
    ASSUME NEW a \in Nat, a < Addressable
    PROVE  /\ L1Of(a) \in Idx /\ L2Of(a) \in Idx /\ L3Of(a) \in Idx
           /\ a = L1EntrySize * L1Of(a) + BlockSize * L2Of(a) + L3Of(a)
<1> DEFINE n == TableEntries
           B == n * n
           i == a \div B
           r == a % B
           j == r \div n
           k == r % n
<1>1. n \in Nat \ {0} /\ L1EntrySize = B /\ BlockSize = n /\ Addressable = n * B
  BY Stage2Assumption DEF L1EntrySize, BlockSize, Addressable
<1>2. Idx = 0..(n - 1)
  BY DEF Idx
<1> HIDE DEF n
<1>3. B \in Nat \ {0}
  BY <1>1
<1>4. r \in 0..(B - 1) /\ i \in Nat /\ a = B * i + r
  <2> HIDE DEF B
  <2> QED BY <1>3, Quotient
<1>5. i < n
  <2> SUFFICES ASSUME i >= n PROVE FALSE
    BY <1>1, <1>4
  <2> HIDE DEF i, r
  <2>1. B * i >= B * n
    BY <1>1, <1>3, <1>4
  <2>2. B * n = n * B /\ n * B \in Int /\ B * i \in Int
    BY <1>1, <1>3, <1>4
  <2> HIDE DEF B
  <2> QED BY <1>1, <1>3, <1>4, <2>1, <2>2
<1>6. k \in 0..(n - 1) /\ j \in Nat /\ r = n * j + k
  <2>1. r \in Nat
    BY <1>3, <1>4
  <2> HIDE DEF B, r
  <2> QED BY <1>1, <2>1, Quotient
<1> HIDE DEF i, r, j, k
<1>7. j < n
  <2> SUFFICES ASSUME j >= n PROVE FALSE
    BY <1>1, <1>6
  <2>1. n * j >= B
    BY <1>1, <1>6
  <2>2. n * j \in Int
    BY <1>1, <1>6
  <2> HIDE DEF B
  <2> QED BY <1>3, <1>4, <1>6, <2>1, <2>2
<1>8. a = L1EntrySize * i + BlockSize * j + k
  <2>1. n * j \in Int /\ B * i \in Int
    BY <1>1, <1>3, <1>4, <1>6
  <2> HIDE DEF B
  <2> QED BY <1>1, <1>4, <1>6, <2>1
<1>9. i \in Idx /\ j \in Idx /\ k \in Idx
  BY <1>2, <1>1, <1>4, <1>5, <1>6, <1>7
<1>10. L1Of(a) = i /\ L2Of(a) = j /\ L3Of(a) = k
  BY <1>8, <1>9, DigitsUnique
<1> QED BY <1>8, <1>9, <1>10

(* The geometry is made of natural numbers.                                  *)
LEMMA Geometry ==
    /\ BlockSize \in Nat \ {0} /\ TableEntries = BlockSize
    /\ L1EntrySize = BlockSize * BlockSize /\ L1EntrySize \in Nat \ {0}
    /\ Addressable = BlockSize * L1EntrySize /\ Addressable \in Nat \ {0}
    /\ Idx = 0..(BlockSize - 1)
<1> DEFINE n == TableEntries
           B == n * n
<1>1. n \in Nat \ {0}
  BY Stage2Assumption
<1>2. L1EntrySize = B /\ BlockSize = n /\ Addressable = n * B /\ Idx = 0..(n - 1)
  BY DEF L1EntrySize, BlockSize, Addressable, Idx
<1> HIDE DEF n
<1>3. B \in Nat \ {0}
  BY <1>1
<1>4. n * B \in Nat \ {0}
  <2> HIDE DEF B
  <2> QED BY <1>1, <1>3
<1> QED BY <1>1, <1>2, <1>3, <1>4 DEF n

(* Two addresses of one L1 entry are as far apart as their blocks.           *)
LEMMA SameEntry ==
    ASSUME NEW a \in Nat, NEW b \in Nat, a < Addressable, b < Addressable,
           L1Of(a) = L1Of(b), b % BlockSize = 0
    PROVE  a = b + BlockSize * (L2Of(a) - L2Of(b)) + L3Of(a)
<1> DEFINE n == BlockSize
           B == L1EntrySize
           i == L1Of(b)
           j == L2Of(a)
           l == L2Of(b)
           k == L3Of(a)
<1>1. n \in Nat \ {0} /\ B \in Nat /\ Idx = 0..(n - 1)
  BY Geometry
<1>2. j \in Idx /\ k \in Idx /\ i \in Idx /\ a = B * i + n * j + k
  BY Digits
<1>3. l \in Idx /\ b = B * i + n * l + L3Of(b)
  BY Digits
<1>4. L3Of(b) = 0
  BY Geometry DEF L3Of
<1> HIDE DEF n, B, i, j, l, k
<1>5. n * (j - l) = n * j - n * l /\ n * j \in Int /\ n * l \in Int /\ B * i \in Int
  BY <1>1, <1>2, <1>3
<1>6. a = b + n * (j - l) + k
  BY <1>1, <1>2, <1>3, <1>4, <1>5
<1> QED BY <1>6 DEF n, j, l, k

(* Inside a window the indices count up from those of its base: a window     *)
(* that validate accepts does not leave its L1 entry.                        *)
LEMMA InsideWindow ==
    ASSUME NEW b \in Nat, b < Addressable, b % BlockSize = 0,
           NEW q \in Nat, NEW k \in Idx, (b % L1EntrySize) + BlockSize * q + k < L1EntrySize
    PROVE  LET a == b + BlockSize * q + k
           IN  /\ a \in Nat /\ a < Addressable
               /\ L1Of(a) = L1Of(b) /\ L2Of(a) = L2Of(b) + q /\ L3Of(a) = k
<1> DEFINE n == BlockSize
           B == L1EntrySize
           i == L1Of(b)
           l == L2Of(b)
           a == b + n * q + k
<1>1. n \in Nat \ {0} /\ B \in Nat /\ Idx = 0..(n - 1) /\ B = n * n
  BY Geometry
<1>2. l \in Idx /\ i \in Idx /\ b = B * i + n * l + L3Of(b)
  BY Digits
<1>3. L3Of(b) = 0
  BY Geometry DEF L3Of
<1>4. b % B = n * l
  <2>1. 0 \in Idx
    BY <1>1
  <2>2. b % B = n * l + 0
    BY <1>2, <1>3, <2>1, DigitsUnique
  <2>3. n * l \in Int
    BY <1>1, <1>2
  <2> QED BY <2>2, <2>3
<1>5. n * l + n * q + k < B
  BY <1>4
<1> HIDE DEF n, B, i, l
<1>6. l + q \in Idx
  <2> SUFFICES ASSUME l + q >= n PROVE FALSE
    BY <1>1, <1>2
  <2>1. n * (l + q) >= n * n
    BY <1>1, <1>2
  <2>2. n * (l + q) = n * l + n * q /\ n * l \in Int /\ n * q \in Int /\ n * n \in Int
    BY <1>1, <1>2
  <2> QED BY <1>1, <1>5, <2>1, <2>2
<1>7. a = B * i + n * (l + q) + k /\ a \in Nat
  <2>1. n * (l + q) = n * l + n * q /\ n * l \in Nat /\ n * q \in Nat /\ B * i \in Nat
    BY <1>1, <1>2
  <2> QED BY <1>1, <1>2, <1>3, <2>1
<1>8. L1Of(a) = i /\ L2Of(a) = l + q /\ L3Of(a) = k /\ a < Addressable
  <2> HIDE DEF a
  <2> QED BY <1>2, <1>6, <1>7, DigitsUnique DEF n, B
<1> QED BY <1>7, <1>8 DEF n, B, i, l

(* The blocks of a super window have slots of their own, also past the last  *)
(* backed one, where the slots wrap.                                         *)
LEMMA SlotsDistinct ==
    ASSUME NEW b \in Nat, b % BlockSize = 0, NEW m \in Idx, NEW p \in Idx,
           L2Of(b + m * BlockSize) = L2Of(b + p * BlockSize)
    PROVE  m = p
<1> DEFINE n == BlockSize
           c == b \div n
           x == c + m
           y == c + p
<1>1. n \in Nat \ {0} /\ Idx = 0..(n - 1) /\ TableEntries = n
  BY Geometry
<1>2. c \in Nat /\ b = n * c
  <2>1. c \in Nat /\ b = n * c + (b % n)
    BY <1>1, Quotient
  <2>2. n * c \in Int
    BY <1>1, <2>1
  <2> QED BY <2>1, <2>2
<1> HIDE DEF n, c
<1>3. (b + m * n) \div n = x /\ (b + p * n) \div n = y
  <2>1. \A z \in Idx : (b + z * n) \div n = c + z
    <3> TAKE z \in Idx
    <3>1. n * (c + z) = n * c + z * n /\ z * n \in Nat /\ n * c \in Nat /\ z \in Nat
      BY <1>1, <1>2
    <3> DEFINE a == b + z * n
               w == c + z
    <3>2. a = n * w + 0 /\ a \in Nat /\ w \in Int /\ 0 \in 0..(n - 1)
      BY <1>1, <1>2, <3>1
    <3> HIDE DEF a, w
    <3>3. a \div n = w
      BY <1>1, <3>2, QuotientUnique
    <3> QED BY <3>3 DEF a, w
  <2> QED BY <2>1
<1>4. x % n = y % n
  BY <1>1, <1>3 DEF L2Of, n
<1> DEFINE g == x \div n
           h == y \div n
           r == x % n
<1>5. x = n * g + r /\ y = n * h + r /\ g \in Nat /\ h \in Nat /\ r \in Nat
  <2>1. x \in Nat /\ y \in Nat
    BY <1>1, <1>2
  <2> HIDE DEF x, y
  <2>2. x % n \in 0..(n - 1) /\ g \in Nat /\ x = n * g + (x % n)
    BY <1>1, <2>1, Quotient
  <2>3. h \in Nat /\ y = n * h + (y % n)
    BY <1>1, <2>1, Quotient
  <2> QED BY <1>1, <1>4, <2>2, <2>3
<1> HIDE DEF g, h, r
<1>6. m - p = n * (g - h)
  <2>1. n * (g - h) = n * g - n * h /\ n * g \in Int /\ n * h \in Int
    BY <1>1, <1>5
  <2> QED BY <1>1, <1>2, <1>5, <2>1
<1>7. CASE g - h >= 1
  <2>1. n * (g - h) >= n
    BY <1>1, <1>5, <1>7
  <2> QED BY <1>1, <1>6, <2>1
<1>8. CASE g - h <= -1
  <2>1. n * (g - h) <= -n
    BY <1>1, <1>5, <1>8
  <2> QED BY <1>1, <1>6, <2>1
<1>9. CASE g - h = 0
  BY <1>1, <1>6, <1>9
<1> QED BY <1>5, <1>7, <1>8, <1>9

-----------------------------------------------------------------------------
(* Layouts.                                                                  *)

HasImage(L)  == L.image # NoImage
HasDevice(L) == L.device_len > 0

(* A window that starts on a block and stays in its L1 entry.                *)
Fits(b, span) ==
    /\ b \in Nat /\ span \in Nat /\ b < Addressable /\ b % BlockSize = 0
    /\ (b % L1EntrySize) + span <= L1EntrySize

Within(a, b, span) == a >= b /\ a < b + span

(* What validate's checks come to, window by window.                         *)
WellLaid(L) ==
    /\ SuperSize(L) = BlockSize /\ L.frame_size = 1
    /\ Fits(L.data_ipa, BlockSize) /\ Fits(L.sup_ipa, L.sup_frames * BlockSize)
    /\ L.sup_pa % BlockSize = 0
    /\ L1Of(L.data_ipa) # L1Of(L.sup_ipa)
    /\ ~Overlaps(L.data_pa, BlockSize, L.sup_pa, L.sup_frames * BlockSize)
    /\ HasImage(L) =>
        /\ Fits(L.image, BlockSize)
        /\ L1Of(L.image) # L1Of(L.data_ipa) /\ L1Of(L.image) # L1Of(L.sup_ipa)
        /\ ~Overlaps(L.image, BlockSize, L.data_pa, BlockSize)
        /\ ~Overlaps(L.image, BlockSize, L.sup_pa, L.sup_frames * BlockSize)
    /\ HasDevice(L) =>
        /\ Fits(L.device, L.device_len) /\ L.device_len % BlockSize = 0
        /\ L1Of(L.device) # L1Of(L.data_ipa) /\ L1Of(L.device) # L1Of(L.sup_ipa)
        /\ ~Overlaps(L.device, L.device_len, L.data_pa, BlockSize)
        /\ ~Overlaps(L.device, L.device_len, L.sup_pa, L.sup_frames * BlockSize)
    /\ HasImage(L) /\ HasDevice(L) =>
        /\ L1Of(L.image) # L1Of(L.device)
        /\ ~Overlaps(L.image, BlockSize, L.device, L.device_len)

(* validate accepts well-laid layouts only.                                  *)
LEMMA ValidateWellLaid ==
    ASSUME NEW L \in Layout, Validate(L)
    PROVE  WellLaid(L)
<1> DEFINE data  == Region("data", L.data_ipa, L.data_pa, TableEntries * L.frame_size)
           super == Region("super", L.sup_ipa, L.sup_pa, L.sup_frames * SuperSize(L))
           image == Region("image", L.image, L.image, BlockSize)
           dev   == Region("device", L.device, L.device, L.device_len)
           Sound(r) == /\ r.ipa < Addressable /\ r.span <= Addressable - r.ipa
                       /\ (r.ipa % L1EntrySize) + r.span <= L1EntrySize
           Apart(r, s) == /\ L1Of(r.ipa) # L1Of(s.ipa)
                          /\ ~Overlaps(r.ipa, r.span, s.ipa, s.span)
                          /\ ~Overlaps(r.pa, r.span, s.pa, s.span)
<1>1. /\ \A r \in Regions(L) : Sound(r)
      /\ \A r, s \in Regions(L) : r # s => Apart(r, s)
      /\ Aligned(L)
  BY DEF Validate
<1>2. data \in Regions(L) /\ super \in Regions(L)
  BY DEF Regions
<1>3. HasImage(L) => image \in Regions(L)
  BY DEF Regions, HasImage
<1>4. HasDevice(L) => dev \in Regions(L)
  BY DEF Regions, HasDevice
<1>5. data # super /\ data # image /\ data # dev /\ super # image /\ super # dev /\ image # dev
  BY DEF Region
<1>6. /\ L.frame_size = 1 /\ SuperSize(L) = BlockSize
      /\ TableEntries * L.frame_size = BlockSize
  <2>1. L.frame_size = 1
    BY <1>1 DEF Aligned, PageSize
  <2>2. TableEntries * 1 = BlockSize
    BY Geometry
  <2> QED BY <2>1, <2>2 DEF SuperSize
<1>7. /\ data.ipa = L.data_ipa /\ data.pa = L.data_pa /\ data.span = BlockSize
      /\ super.ipa = L.sup_ipa /\ super.pa = L.sup_pa /\ super.span = L.sup_frames * BlockSize
      /\ image.ipa = L.image /\ image.pa = L.image /\ image.span = BlockSize
      /\ dev.ipa = L.device /\ dev.pa = L.device /\ dev.span = L.device_len
  BY <1>6 DEF Region
<1>8. /\ L.data_ipa \in Nat /\ L.sup_ipa \in Nat /\ L.sup_frames \in Nat
      /\ L.device \in Nat /\ L.device_len \in Nat /\ L.image \in Nat \cup {NoImage}
  BY DEF Layout
<1>9. L.sup_frames * BlockSize \in Nat
  BY <1>8, Geometry
<1>10. BlockSize \in Nat
  BY Geometry
<1> HIDE DEF data, super, image, dev
<1>11. Fits(L.data_ipa, BlockSize) /\ Fits(L.sup_ipa, L.sup_frames * BlockSize)
  <2>1. Sound(data) /\ Sound(super)
    BY <1>1, <1>2
  <2>2. L.data_ipa % BlockSize = 0 /\ L.sup_ipa % BlockSize = 0
    BY <1>1 DEF Aligned
  <2> QED BY <2>1, <2>2, <1>7, <1>8, <1>9, <1>10 DEF Fits
<1>12. HasImage(L) => Fits(L.image, BlockSize)
  <2> HAVE HasImage(L)
  <2>1. Sound(image) /\ L.image % BlockSize = 0
    BY <1>1, <1>3 DEF Aligned, HasImage
  <2>2. L.image \in Nat
    BY <1>8 DEF HasImage
  <2> QED BY <2>1, <2>2, <1>7, <1>10 DEF Fits
<1>13. HasDevice(L) => Fits(L.device, L.device_len) /\ L.device_len % BlockSize = 0
  <2> HAVE HasDevice(L)
  <2>1. Sound(dev) /\ L.device % BlockSize = 0 /\ L.device_len % BlockSize = 0
    BY <1>1, <1>4 DEF Aligned, HasDevice
  <2> QED BY <2>1, <1>7, <1>8 DEF Fits
<1>14. Apart(data, super)
  BY <1>1, <1>2, <1>5
<1>15. HasImage(L) => Apart(image, data) /\ Apart(image, super)
  BY <1>1, <1>2, <1>3, <1>5
<1>16. HasDevice(L) => Apart(dev, data) /\ Apart(dev, super)
  BY <1>1, <1>2, <1>4, <1>5
<1>17. HasImage(L) /\ HasDevice(L) => Apart(image, dev)
  BY <1>1, <1>3, <1>4, <1>5
<1>18. L.sup_pa % BlockSize = 0
  BY <1>1 DEF Aligned
<1> QED BY <1>6, <1>7, <1>11, <1>12, <1>13, <1>14, <1>15, <1>16, <1>17, <1>18 DEF WellLaid

(* An address in a window has the window's L1 entry, and its block and page  *)
(* count from the window's base.                                             *)
LEMMA WithinWindow ==
    ASSUME NEW b, NEW span, Fits(b, span), NEW a \in Nat, Within(a, b, span)
    PROVE  /\ a < Addressable /\ L1Of(a) = L1Of(b) /\ L2Of(a) - L2Of(b) \in Nat
           /\ L2Of(a) \in Idx /\ L2Of(b) \in Idx /\ L3Of(a) \in Idx
           /\ a = b + BlockSize * (L2Of(a) - L2Of(b)) + L3Of(a)
<1> DEFINE n == BlockSize
           q == (a - b) \div n
           k == (a - b) % n
<1>1. n \in Nat \ {0} /\ Idx = 0..(n - 1)
  BY Geometry
<1>2. b \in Nat /\ a - b \in Nat /\ b < Addressable /\ b % n = 0 /\ span \in Nat
  BY DEF Fits, Within
<1>3. q \in Nat /\ k \in Idx /\ a - b = n * q + k
  <2> DEFINE c == a - b
  <2> HIDE DEF c
  <2>1. c \in Nat
    BY <1>2 DEF c
  <2>2. c % n \in 0..(n - 1) /\ c \div n \in Nat /\ c = n * (c \div n) + (c % n)
    BY <1>1, <2>1, Quotient
  <2> QED BY <1>1, <2>2 DEF c
<1> HIDE DEF q, k, n
<1>4. n * q \in Nat
  BY <1>1, <1>3
<1>5. a = b + n * q + k
  BY <1>1, <1>2, <1>3, <1>4
<1>6. (b % L1EntrySize) + n * q + k < L1EntrySize
  <2>1. L1EntrySize \in Nat \ {0} /\ b % L1EntrySize \in Nat
    <3>1. L1EntrySize \in Nat \ {0}
      BY Geometry
    <3>2. b % L1EntrySize \in 0..(L1EntrySize - 1)
      BY <1>2, <3>1, Quotient
    <3> QED BY <3>1, <3>2
  <2>2. (b % L1EntrySize) + span <= L1EntrySize /\ a < b + span
    BY DEF Fits, Within
  <2> QED BY <1>1, <1>2, <1>3, <1>4, <1>5, <2>1, <2>2
<1>7. L1Of(a) = L1Of(b) /\ L2Of(a) = L2Of(b) + q /\ L3Of(a) = k /\ a < Addressable
  BY <1>2, <1>3, <1>5, <1>6, InsideWindow DEF n
<1>8. L2Of(a) \in Idx /\ L2Of(b) \in Idx
  BY <1>2, <1>7, Digits
<1> QED BY <1>1, <1>3, <1>5, <1>7, <1>8 DEF n

-----------------------------------------------------------------------------
(* What encode writes.                                                       *)

ZeroTables ==
    [l1 |-> DeadTable, l2_code |-> DeadTable, l2_data |-> DeadTable,
     l3_data |-> DeadTable, l2_sup |-> DeadTable, l2_dev |-> DeadTable]

LeafMap == [Idx -> {"none", "Rw", "Ro", "Rx"}]

Encoded(leaves, supers, L) == Encode(ZeroTables, leaves, supers, L)

(* Encoding over tables encoded before is encoding into zeroed storage: the  *)
(* three tables encode does not clear get the same entries every time.       *)
LEMMA EncodeForgets ==
    ASSUME NEW L, NEW leaves, NEW supers, NEW leaves0, NEW supers0
    PROVE  Encode(Encoded(leaves0, supers0, L), leaves, supers, L) = Encoded(leaves, supers, L)
<1> DEFINE t == Encoded(leaves0, supers0, L)
           live(i) == {e \in LiveL1(L) : e.at = i}
           first == [i \in Idx |-> IF live(i) = {} THEN DeadTable[i]
                                   ELSE TableDesc((CHOOSE e \in live(i) : TRUE).to)]
           again == [i \in Idx |-> IF live(i) = {} THEN first[i]
                                   ELSE TableDesc((CHOOSE e \in live(i) : TRUE).to)]
<1>1. t.l1 = first
  BY DEF Encoded, Encode, ZeroTables
<1>2. again = first
  OBVIOUS
<1>3. t.l2_code = IF L.image = NoImage THEN DeadTable
                  ELSE [DeadTable EXCEPT ![L2Of(L.image)] = ImageBlock(L.image)]
  BY DEF Encoded, Encode, ZeroTables
<1>4. t.l2_data = [DeadTable EXCEPT ![L2Of(L.data_ipa)] = TableDesc("l3_data")]
  BY DEF Encoded, Encode, ZeroTables
<1>5. \A x, v : [[DeadTable EXCEPT ![x] = v] EXCEPT ![x] = v] = [DeadTable EXCEPT ![x] = v]
  BY DEF DeadTable
<1> DEFINE code == [DeadTable EXCEPT ![L2Of(L.image)] = ImageBlock(L.image)]
           data == [DeadTable EXCEPT ![L2Of(L.data_ipa)] = TableDesc("l3_data")]
<1>6. [code EXCEPT ![L2Of(L.image)] = ImageBlock(L.image)] = code
  BY <1>5
<1>7. [data EXCEPT ![L2Of(L.data_ipa)] = TableDesc("l3_data")] = data
  BY <1>5
<1>8. Encode(t, leaves, supers, L) =
        [l1 |-> again, l2_code |-> IF L.image = NoImage THEN DeadTable ELSE code,
         l2_data |-> data, l3_data |-> EncodedL3(leaves, L),
         l2_sup |-> EncodedSup(supers, L), l2_dev |-> EncodedDev(L)]
  <2> HIDE DEF t, first
  <2>1. Encode(t, leaves, supers, L) =
        [l1 |-> [i \in Idx |-> IF live(i) = {} THEN t.l1[i]
                               ELSE TableDesc((CHOOSE e \in live(i) : TRUE).to)],
         l2_code |-> IF L.image = NoImage THEN t.l2_code
                     ELSE [t.l2_code EXCEPT ![L2Of(L.image)] = ImageBlock(L.image)],
         l2_data |-> [t.l2_data EXCEPT ![L2Of(L.data_ipa)] = TableDesc("l3_data")],
         l3_data |-> EncodedL3(leaves, L),
         l2_sup |-> EncodedSup(supers, L), l2_dev |-> EncodedDev(L)]
    BY DEF Encode
  <2>2. [i \in Idx |-> IF live(i) = {} THEN t.l1[i]
                       ELSE TableDesc((CHOOSE e \in live(i) : TRUE).to)] = again
    BY <1>1
  <2>3. (IF L.image = NoImage THEN t.l2_code
         ELSE [t.l2_code EXCEPT ![L2Of(L.image)] = ImageBlock(L.image)])
        = IF L.image = NoImage THEN DeadTable ELSE code
    BY <1>3, <1>6
  <2>4. [t.l2_data EXCEPT ![L2Of(L.data_ipa)] = TableDesc("l3_data")] = data
    BY <1>4, <1>7
  <2> HIDE DEF live, again, code, data
  <2> QED BY <2>1, <2>2, <2>3, <2>4
<1>9. Encoded(leaves, supers, L) =
        [l1 |-> first, l2_code |-> IF L.image = NoImage THEN DeadTable ELSE code,
         l2_data |-> data, l3_data |-> EncodedL3(leaves, L),
         l2_sup |-> EncodedSup(supers, L), l2_dev |-> EncodedDev(L)]
  BY DEF Encoded, Encode, ZeroTables
<1> HIDE DEF first, again, code, data
<1> QED BY <1>2, <1>8, <1>9 DEF t

(* The L1 entries of the windows are live, and no others.                    *)
LEMMA L1Entries ==
    ASSUME NEW L \in Layout, WellLaid(L), NEW leaves, NEW supers
    PROVE  LET t == Encoded(leaves, supers, L)
           IN  /\ L1Of(L.data_ipa) \in Idx /\ t.l1[L1Of(L.data_ipa)] = TableDesc("l2_data")
               /\ L1Of(L.sup_ipa) \in Idx /\ t.l1[L1Of(L.sup_ipa)] = TableDesc("l2_sup")
               /\ HasImage(L) =>
                    L1Of(L.image) \in Idx /\ t.l1[L1Of(L.image)] = TableDesc("l2_code")
               /\ HasDevice(L) =>
                    L1Of(L.device) \in Idx /\ t.l1[L1Of(L.device)] = TableDesc("l2_dev")
               /\ \A i \in Idx :
                    (/\ i # L1Of(L.data_ipa) /\ i # L1Of(L.sup_ipa)
                     /\ HasImage(L) => i # L1Of(L.image)
                     /\ HasDevice(L) => i # L1Of(L.device)) => t.l1[i] = Dead
<1> DEFINE t == Encoded(leaves, supers, L)
           live(i) == {e \in LiveL1(L) : e.at = i}
           data  == [at |-> L1Of(L.data_ipa), to |-> "l2_data"]
           super == [at |-> L1Of(L.sup_ipa), to |-> "l2_sup"]
           image == [at |-> L1Of(L.image), to |-> "l2_code"]
           dev   == [at |-> L1Of(L.device), to |-> "l2_dev"]
<1>1. \A i \in Idx : t.l1[i] = IF live(i) = {} THEN Dead
                               ELSE TableDesc((CHOOSE e \in live(i) : TRUE).to)
  BY DEF Encoded, Encode, ZeroTables, DeadTable
<1>2. HasDevice(L) <=> L.device_len # 0
  BY DEF HasDevice, Layout
<1>3. LiveL1(L) = {data, super} \cup (IF HasImage(L) THEN {image} ELSE {})
                                \cup (IF HasDevice(L) THEN {dev} ELSE {})
  BY <1>2 DEF LiveL1, HasImage
<1>4. /\ data.at = L1Of(L.data_ipa) /\ super.at = L1Of(L.sup_ipa)
      /\ image.at = L1Of(L.image) /\ dev.at = L1Of(L.device)
      /\ data.to = "l2_data" /\ super.to = "l2_sup" /\ image.to = "l2_code" /\ dev.to = "l2_dev"
  OBVIOUS
<1>5. /\ L1Of(L.data_ipa) \in Idx /\ L1Of(L.sup_ipa) \in Idx
      /\ HasImage(L) => L1Of(L.image) \in Idx
      /\ HasDevice(L) => L1Of(L.device) \in Idx
  BY Digits DEF WellLaid, Fits
<1>6. \A i, e : live(i) = {e} => (CHOOSE x \in live(i) : TRUE) = e
  OBVIOUS
<1> HIDE DEF t, data, super, image, dev
<1>7. /\ live(L1Of(L.data_ipa)) = {data} /\ live(L1Of(L.sup_ipa)) = {super}
      /\ HasImage(L) => live(L1Of(L.image)) = {image}
      /\ HasDevice(L) => live(L1Of(L.device)) = {dev}
  <2>1. live(L1Of(L.data_ipa)) = {data}
    BY <1>3, <1>4 DEF WellLaid
  <2>2. live(L1Of(L.sup_ipa)) = {super}
    BY <1>3, <1>4 DEF WellLaid
  <2>3. HasImage(L) => live(L1Of(L.image)) = {image}
    BY <1>3, <1>4 DEF WellLaid
  <2>4. HasDevice(L) => live(L1Of(L.device)) = {dev}
    BY <1>3, <1>4 DEF WellLaid
  <2> QED BY <2>1, <2>2, <2>3, <2>4
<1>8. \A i \in Idx :
        (/\ i # L1Of(L.data_ipa) /\ i # L1Of(L.sup_ipa)
         /\ HasImage(L) => i # L1Of(L.image)
         /\ HasDevice(L) => i # L1Of(L.device)) => live(i) = {}
  BY <1>3, <1>4
<1> HIDE DEF live
<1>9. t.l1[L1Of(L.data_ipa)] = TableDesc("l2_data")
  BY <1>1, <1>4, <1>5, <1>6, <1>7
<1>10. t.l1[L1Of(L.sup_ipa)] = TableDesc("l2_sup")
  BY <1>1, <1>4, <1>5, <1>6, <1>7
<1>11. HasImage(L) => t.l1[L1Of(L.image)] = TableDesc("l2_code")
  BY <1>1, <1>4, <1>5, <1>6, <1>7
<1>12. HasDevice(L) => t.l1[L1Of(L.device)] = TableDesc("l2_dev")
  BY <1>1, <1>4, <1>5, <1>6, <1>7
<1> QED BY <1>1, <1>5, <1>8, <1>9, <1>10, <1>11, <1>12 DEF t

(* Every number has a block index.                                           *)
LEMMA BlockIndex ==
    ASSUME NEW a \in Nat
    PROVE  L2Of(a) \in Idx /\ L3Of(a) \in Idx
<1> DEFINE n == TableEntries
           q == a \div n
<1>1. n \in Nat \ {0} /\ BlockSize = n /\ Idx = 0..(n - 1)
  BY Geometry
<1> HIDE DEF n
<1>2. q \in Nat /\ a % n \in 0..(n - 1)
  BY <1>1, Quotient
<1>3. q % n \in 0..(n - 1)
  <2> HIDE DEF q
  <2> QED BY <1>1, <1>2, Quotient
<1> QED BY <1>1, <1>2, <1>3 DEF L2Of, L3Of, n

(* The image block, the pointer to the pages, and the pages.                 *)
LEMMA PageEntries ==
    ASSUME NEW L \in Layout, WellLaid(L), NEW leaves, NEW supers
    PROVE  LET t == Encoded(leaves, supers, L)
           IN  /\ L2Of(L.data_ipa) \in Idx
               /\ t.l2_data[L2Of(L.data_ipa)] = TableDesc("l3_data")
               /\ \A j \in Idx \ {L2Of(L.data_ipa)} : t.l2_data[j] = Dead
               /\ \A m \in Idx : t.l3_data[m] = IF leaves[m] = "none" THEN Dead
                                               ELSE PageLeaf(L.data_pa + m, leaves[m])
               /\ ~HasImage(L) => \A j \in Idx : t.l2_code[j] = Dead
               /\ HasImage(L) =>
                    /\ L2Of(L.image) \in Idx
                    /\ t.l2_code[L2Of(L.image)] = ImageBlock(L.image)
                    /\ \A j \in Idx \ {L2Of(L.image)} : t.l2_code[j] = Dead
<1>1. L2Of(L.data_ipa) \in Idx /\ (HasImage(L) => L2Of(L.image) \in Idx)
  BY BlockIndex DEF WellLaid, Fits
<1>2. \A m \in Idx : FramePa(L, m) = L.data_pa + m
  <2>1. L.frame_size = 1 /\ L.data_pa \in Nat
    BY DEF WellLaid, Layout
  <2>2. \A m \in Idx : m * 1 = m
    BY Geometry
  <2> QED BY <2>1, <2>2 DEF FramePa
<1> DEFINE t == Encoded(leaves, supers, L)
<1>3. t.l2_data = [DeadTable EXCEPT ![L2Of(L.data_ipa)] = TableDesc("l3_data")]
  BY DEF Encoded, Encode, ZeroTables
<1>4. t.l2_code = IF HasImage(L)
                  THEN [DeadTable EXCEPT ![L2Of(L.image)] = ImageBlock(L.image)] ELSE DeadTable
  BY DEF Encoded, Encode, ZeroTables, HasImage
<1>5. t.l3_data = EncodedL3(leaves, L)
  BY DEF Encoded, Encode
<1> HIDE DEF t
<1>6. \A m \in Idx : t.l3_data[m] = IF leaves[m] = "none" THEN Dead
                                    ELSE PageLeaf(L.data_pa + m, leaves[m])
  BY <1>2, <1>5 DEF EncodedL3
<1>7. /\ t.l2_data[L2Of(L.data_ipa)] = TableDesc("l3_data")
      /\ \A j \in Idx \ {L2Of(L.data_ipa)} : t.l2_data[j] = Dead
  BY <1>1, <1>3 DEF DeadTable
<1>8. ~HasImage(L) => \A j \in Idx : t.l2_code[j] = Dead
  BY <1>4 DEF DeadTable
<1>9. HasImage(L) => /\ t.l2_code[L2Of(L.image)] = ImageBlock(L.image)
                     /\ \A j \in Idx \ {L2Of(L.image)} : t.l2_code[j] = Dead
  BY <1>1, <1>4 DEF DeadTable
<1> QED BY <1>1, <1>6, <1>7, <1>8, <1>9 DEF t

(* The blocks of super frames, each at its own slot.                         *)
LEMMA SuperEntries ==
    ASSUME NEW L \in Layout, WellLaid(L), NEW leaves, NEW supers
    PROVE  LET t == Encoded(leaves, supers, L)
               at(m) == L2Of(SuperIpa(L, m))
           IN  /\ \A m \in Idx : at(m) \in Idx
               /\ \A m \in Idx : t.l2_sup[at(m)] =
                    IF supers[m] = "none" THEN Dead
                    ELSE BlockLeaf(SuperPa(L, m), supers[m], L.wx_exempt)
               /\ \A j \in Idx : (\A m \in Idx : at(m) = j => supers[m] = "none")
                                    => t.l2_sup[j] = Dead
<1> DEFINE t == Encoded(leaves, supers, L)
           at(m) == L2Of(SuperIpa(L, m))
           here(j) == {m \in Idx : supers[m] # "none" /\ at(m) = j}
<1>1. L.sup_ipa \in Nat /\ L.sup_ipa % BlockSize = 0 /\ SuperSize(L) = BlockSize
  BY DEF WellLaid, Fits
<1>2. \A m \in Idx : SuperIpa(L, m) = L.sup_ipa + m * BlockSize /\ SuperIpa(L, m) \in Nat
  <2>1. \A m \in Idx : m * BlockSize \in Nat
    BY Geometry
  <2> QED BY <1>1, <2>1 DEF SuperIpa
<1>3. \A m \in Idx : at(m) \in Idx
  BY <1>2, BlockIndex
<1>4. \A m, p \in Idx : at(m) = at(p) => m = p
  BY <1>1, <1>2, SlotsDistinct
<1>5. \A j \in Idx : t.l2_sup[j] =
        IF here(j) = {} THEN Dead
        ELSE LET m == CHOOSE n \in here(j) : TRUE IN BlockLeaf(SuperPa(L, m), supers[m], L.wx_exempt)
  BY DEF Encoded, Encode, EncodedSup
<1> HIDE DEF t, at
<1>6. ASSUME NEW m \in Idx
      PROVE  t.l2_sup[at(m)] = IF supers[m] = "none" THEN Dead
                               ELSE BlockLeaf(SuperPa(L, m), supers[m], L.wx_exempt)
  <2>1. CASE supers[m] = "none"
    <3>1. here(at(m)) = {}
      BY <1>4, <2>1
    <3> QED BY <1>3, <1>5, <2>1, <3>1
  <2>2. CASE supers[m] # "none"
    <3>1. here(at(m)) = {m}
      BY <1>4, <2>2
    <3>2. (CHOOSE n \in here(at(m)) : TRUE) = m
      BY <3>1
    <3> QED BY <1>3, <1>5, <2>2, <3>1, <3>2
  <2> QED BY <2>1, <2>2
<1>7. ASSUME NEW j \in Idx, \A m \in Idx : at(m) = j => supers[m] = "none"
      PROVE  t.l2_sup[j] = Dead
  <2>1. here(j) = {}
    BY <1>7
  <2> QED BY <1>5, <2>1
<1> QED BY <1>3, <1>6, <1>7 DEF t, at

(* The blocks of the device window, from its base on.                        *)
LEMMA DeviceEntries ==
    ASSUME NEW L \in Layout, WellLaid(L), NEW leaves, NEW supers, NEW j \in Idx
    PROVE  LET t == Encoded(leaves, supers, L)
               q == j - L2Of(L.device)
           IN  /\ ~HasDevice(L) => t.l2_dev[j] = Dead
               /\ HasDevice(L) => t.l2_dev[j] =
                    IF q \in Nat /\ BlockSize * q < L.device_len
                    THEN DeviceBlock(L.device + BlockSize * q) ELSE Dead
<1> DEFINE t == Encoded(leaves, supers, L)
           q == j - L2Of(L.device)
           n == BlockSize
           here == {k \in 0..(L.device_len - 1) : k % n = 0 /\ L2Of(L.device + k) = j}
<1>1. t.l2_dev[j] = IF here = {} THEN Dead ELSE DeviceBlock(L.device + (CHOOSE k \in here : TRUE))
  BY DEF Encoded, Encode, EncodedDev
<1>2. ASSUME ~HasDevice(L) PROVE t.l2_dev[j] = Dead
  <2>1. L.device_len = 0
    BY <1>2 DEF HasDevice, Layout
  <2>2. here = {}
    BY <2>1
  <2> QED BY <1>1, <2>2
<1>3. ASSUME HasDevice(L)
      PROVE  t.l2_dev[j] = IF q \in Nat /\ n * q < L.device_len THEN DeviceBlock(L.device + n * q) ELSE Dead
  <2>1. Fits(L.device, L.device_len) /\ L.device \in Nat /\ L.device_len \in Nat
    BY <1>3 DEF WellLaid, Fits
  <2>2. n \in Nat \ {0} /\ Idx = 0..(n - 1)
    BY Geometry
  <2>3. L2Of(L.device) \in Idx
    BY <2>1, BlockIndex
  <2>4. q \in Int
    BY <2>2, <2>3
  <2> HIDE DEF t, n
  <2>5. ASSUME NEW k \in here PROVE k = n * q /\ q \in Nat /\ n * q < L.device_len
    <3>1. k \in Nat /\ k < L.device_len /\ k % n = 0 /\ L2Of(L.device + k) = j
      BY <2>1
    <3> DEFINE a == L.device + k
    <3>2. a \in Nat /\ Within(a, L.device, L.device_len)
      BY <2>1, <3>1 DEF Within
    <3>3. L2Of(a) - L2Of(L.device) \in Nat /\ a = L.device + n * (L2Of(a) - L2Of(L.device)) + L3Of(a)
      BY <2>1, <3>2, WithinWindow DEF n
    <3>4. q \in Nat /\ k = n * q + L3Of(a)
      <4> HIDE DEF q
      <4>1. n * q \in Int
        BY <2>2, <2>4
      <4>3. L3Of(a) \in Int
        <5> HIDE DEF a
        <5>1. L3Of(a) \in Idx
          BY <3>2, BlockIndex
        <5> QED BY <2>2, <5>1
      <4>2. a = L.device + n * q + L3Of(a) /\ q \in Nat
        BY <3>1, <3>3 DEF q
      <4> QED BY <2>1, <3>1, <4>1, <4>2, <4>3
    <3>5. L3Of(a) \in 0..(n - 1)
      BY <2>2, <3>2, BlockIndex
    <3> HIDE DEF a, q
    <3>6. k % n = L3Of(a)
      <4> DEFINE r == L3Of(a)
      <4> HIDE DEF r
      <4>1. q \in Int /\ r \in 0..(n - 1) /\ k = n * q + r
        BY <3>4, <3>5 DEF r
      <4>2. k % n = r
        BY <2>2, <3>1, <4>1, QuotientUnique
      <4> QED BY <4>2 DEF r
    <3>7. n * q \in Int
      BY <2>2, <3>4
    <3> QED BY <3>1, <3>4, <3>6, <3>7
  <2>6. ASSUME q \in Nat, n * q < L.device_len PROVE n * q \in here
    <3> DEFINE k == n * q
    <3>1. k \in Nat /\ k \in 0..(L.device_len - 1)
      BY <2>1, <2>2, <2>6
    <3>2. k % n = 0
      <4>1. k = n * q + 0 /\ 0 \in 0..(n - 1) /\ q \in Int
        BY <2>2, <2>6, <3>1
      <4> HIDE DEF k, q
      <4> QED BY <2>2, <3>1, <4>1, QuotientUnique
    <3>3. L2Of(L.device + k) = j
      <4> DEFINE l == L2Of(L.device)
      <4>1. (L.device % L1EntrySize) + k + 0 < L1EntrySize
        <5>1. L1EntrySize \in Nat \ {0}
          BY Geometry
        <5>2. L.device % L1EntrySize \in 0..(L1EntrySize - 1)
          BY <2>1, <5>1, Quotient
        <5>3. (L.device % L1EntrySize) + L.device_len <= L1EntrySize
          BY <2>1 DEF Fits
        <5> HIDE DEF k
        <5> QED BY <2>1, <3>1, <5>1, <5>2, <5>3
      <4>2. 0 \in Idx
        BY <2>2
      <4>3. L2Of(L.device + k + 0) = l + q
        <5> HIDE DEF q
        <5> QED BY <2>1, <2>6, <4>1, <4>2, InsideWindow DEF n, Fits
      <4>4. L.device + k + 0 = L.device + k
        <5> HIDE DEF k
        <5> QED BY <2>1, <3>1
      <4>5. l + q = j
        BY <2>2, <2>3
      <4> QED BY <4>3, <4>4, <4>5
    <3> QED BY <3>1, <3>2, <3>3
  <2>7. CASE q \in Nat /\ n * q < L.device_len
    <3>1. here = {n * q}
      BY <2>5, <2>6, <2>7
    <3> HIDE DEF here
    <3>2. (CHOOSE k \in here : TRUE) = n * q
      BY <3>1
    <3> QED BY <1>1, <2>7, <3>1, <3>2
  <2>8. CASE ~(q \in Nat /\ n * q < L.device_len)
    <3>1. here = {}
      BY <2>5, <2>8
    <3> HIDE DEF here
    <3> QED BY <1>1, <2>8, <3>1
  <2> QED BY <2>7, <2>8
<1> QED BY <1>2, <1>3

-----------------------------------------------------------------------------
(* What a walk finds, window by window.                                      *)

Hit(pa, w, x) == [kind |-> "reach", pa |-> pa, w |-> w, x |-> x]

(* A walk through a live L1 entry, by what it finds in the second table.     *)
LEMMA WalkSteps ==
    ASSUME NEW t, NEW a \in Nat, a < Addressable, NEW name, t.l1[L1Of(a)] = TableDesc(name)
    PROVE  LET l2 == t[name][L2Of(a)]
           IN  /\ l2.kind = "block" => Walk(t, a) = Hit(l2.pa + L3Of(a), l2.w, l2.x)
               /\ l2.kind = "dead" => Walk(t, a) = NoReach
               /\ \A next : l2 = TableDesc(next) =>
                    Walk(t, a) = IF t[next][L3Of(a)].kind = "page"
                                 THEN Hit(t[next][L3Of(a)].pa + 0, t[next][L3Of(a)].w, t[next][L3Of(a)].x)
                                 ELSE NoReach
<1>1. a % BlockSize = L3Of(a)
  BY DEF BlockSize, L3Of
<1>2. ~(a >= Addressable)
  BY Geometry
<1>3. TableDesc(name).kind = "table" /\ TableDesc(name).to = name
  BY DEF TableDesc
<1> DEFINE l2 == t[name][L2Of(a)]
<1>4. Walk(t, a) = IF l2.kind = "block" THEN ReachAt(l2, a % BlockSize)
                   ELSE IF l2.kind = "table" /\ t[l2.to][L3Of(a)].kind = "page"
                        THEN ReachAt(t[l2.to][L3Of(a)], 0) ELSE NoReach
  BY <1>2, <1>3 DEF Walk
<1> HIDE DEF l2
<1>5. l2.kind = "block" => Walk(t, a) = Hit(l2.pa + L3Of(a), l2.w, l2.x)
  BY <1>1, <1>4 DEF ReachAt, Hit
<1>6. l2.kind = "dead" => Walk(t, a) = NoReach
  BY <1>4
<1>7. ASSUME NEW next, l2 = TableDesc(next)
      PROVE  Walk(t, a) = IF t[next][L3Of(a)].kind = "page"
                          THEN Hit(t[next][L3Of(a)].pa + 0, t[next][L3Of(a)].w, t[next][L3Of(a)].x)
                          ELSE NoReach
  <2>1. l2.kind = "table" /\ l2.to = next
    BY <1>7 DEF TableDesc
  <2> QED BY <1>4, <2>1 DEF ReachAt, Hit
<1> QED BY <1>5, <1>6, <1>7 DEF l2

(* Less than a block from the base is in the first block.                    *)
LEMMA FirstBlock ==
    ASSUME NEW n \in Nat \ {0}, NEW q \in Nat, NEW k \in Nat, n * q + k < n
    PROVE  q = 0
<1> SUFFICES ASSUME q >= 1 PROVE FALSE
  OBVIOUS
<1>1. n * q >= n /\ n * q \in Int
  OBVIOUS
<1> QED BY <1>1

(* The base of an aligned block is the block's address.                      *)
LEMMA AlignedBase ==
    ASSUME NEW a \in Nat, a % BlockSize = 0
    PROVE  BlockBase(a) = a
  BY DEF BlockBase

(* In the image a walk finds the image, to be read and executed.             *)
LEMMA WalkImage ==
    ASSUME NEW L \in Layout, WellLaid(L), NEW leaves, NEW supers,
           HasImage(L), NEW a \in Nat, Within(a, L.image, BlockSize)
    PROVE  a < Addressable /\ Walk(Encoded(leaves, supers, L), a) = Hit(a, FALSE, TRUE)
<1> DEFINE t == Encoded(leaves, supers, L)
           n == BlockSize
           q == L2Of(a) - L2Of(L.image)
           k == L3Of(a)
<1>1. Fits(L.image, n) /\ L.image \in Nat /\ L.image % n = 0
  BY DEF WellLaid, Fits
<1>2. n \in Nat \ {0} /\ Idx = 0..(n - 1)
  BY Geometry
<1>3. /\ a < Addressable /\ L1Of(a) = L1Of(L.image) /\ q \in Nat /\ k \in Idx
      /\ a = L.image + n * q + k /\ L2Of(a) \in Idx /\ L2Of(L.image) \in Idx
  BY <1>1, WithinWindow
<1>4. q = 0
  <2> HIDE DEF q, k, n
  <2>1. k \in Nat /\ n * q \in Int
    BY <1>2, <1>3
  <2>2. n * q + k < n
    BY <1>1, <1>2, <1>3, <2>1 DEF Within, n
  <2> QED BY <1>2, <1>3, <2>1, <2>2, FirstBlock
<1>5. L2Of(a) = L2Of(L.image)
  BY <1>2, <1>3, <1>4
<1>6. a = L.image + k
  <2> HIDE DEF q, k, n
  <2>1. n * q = 0
    BY <1>2, <1>4
  <2> QED BY <1>1, <1>2, <1>3, <2>1
<1>7. t.l1[L1Of(a)] = TableDesc("l2_code")
  BY <1>3, L1Entries
<1>8. t.l2_code[L2Of(a)] = ImageBlock(L.image)
  BY <1>5, PageEntries
<1>9. /\ t["l2_code"][L2Of(a)].kind = "block" /\ t["l2_code"][L2Of(a)].pa = L.image
      /\ t["l2_code"][L2Of(a)].w = FALSE /\ t["l2_code"][L2Of(a)].x = TRUE
  <2>1. BlockBase(L.image) = L.image
    BY <1>1, AlignedBase
  <2>2. t["l2_code"][L2Of(a)] = ImageBlock(L.image)
    BY <1>8
  <2> HIDE DEF t
  <2> QED BY <2>1, <2>2 DEF ImageBlock, Leaf
<1> HIDE DEF t
<1>10. Walk(t, a) = Hit(L.image + k, FALSE, TRUE)
  BY <1>3, <1>7, <1>9, WalkSteps
<1> QED BY <1>3, <1>6, <1>10 DEF t

(* In the data window a walk finds the page of the frame, with the access of *)
(* its leaf, or nothing.                                                     *)
LEMMA WalkData ==
    ASSUME NEW L \in Layout, WellLaid(L), NEW leaves, NEW supers, NEW m \in Idx
    PROVE  LET a == L.data_ipa + m
           IN  /\ a \in Nat /\ a < Addressable
               /\ Walk(Encoded(leaves, supers, L), a) =
                    IF leaves[m] = "none" THEN NoReach
                    ELSE Hit(L.data_pa + m, leaves[m] = "Rw", leaves[m] = "Rx")
<1> DEFINE t == Encoded(leaves, supers, L)
           n == BlockSize
           a == L.data_ipa + m
<1>1. Fits(L.data_ipa, n) /\ L.data_ipa \in Nat /\ L.data_pa \in Nat
  BY DEF WellLaid, Fits, Layout
<1>2. n \in Nat \ {0} /\ Idx = 0..(n - 1)
  BY Geometry
<1>3. a \in Nat /\ Within(a, L.data_ipa, n)
  BY <1>1, <1>2 DEF Within
<1> DEFINE q == L2Of(a) - L2Of(L.data_ipa)
           k == L3Of(a)
<1>4. /\ a < Addressable /\ L1Of(a) = L1Of(L.data_ipa) /\ q \in Nat /\ k \in Idx
      /\ a = L.data_ipa + n * q + k /\ L2Of(a) \in Idx /\ L2Of(L.data_ipa) \in Idx
  <2> HIDE DEF a
  <2> QED BY <1>1, <1>3, WithinWindow
<1>5. q = 0
  <2> HIDE DEF q, k, n
  <2>1. k \in Nat /\ n * q \in Int
    BY <1>2, <1>4
  <2>2. n * q + k < n
    BY <1>1, <1>2, <1>4, <2>1
  <2> QED BY <1>2, <1>4, <2>1, <2>2, FirstBlock
<1>6. k = m
  <2> HIDE DEF q, k, n
  <2>1. n * q = 0
    BY <1>2, <1>5
  <2> QED BY <1>1, <1>2, <1>4, <2>1
<1>7. L2Of(a) = L2Of(L.data_ipa)
  <2> HIDE DEF a
  <2> QED BY <1>2, <1>4, <1>5
<1>8. t.l1[L1Of(a)] = TableDesc("l2_data") /\ t["l2_data"][L2Of(a)] = TableDesc("l3_data")
  <2> HIDE DEF a
  <2>1. t.l1[L1Of(a)] = TableDesc("l2_data")
    BY <1>4, L1Entries
  <2>2. t["l2_data"][L2Of(a)] = TableDesc("l3_data")
    BY <1>7, PageEntries
  <2> QED BY <2>1, <2>2
<1>9. t["l3_data"][m] = IF leaves[m] = "none" THEN Dead ELSE PageLeaf(L.data_pa + m, leaves[m])
  BY PageEntries
<1> HIDE DEF t, a, k
<1>10. Walk(t, a) = IF t["l3_data"][m].kind = "page"
                    THEN Hit(t["l3_data"][m].pa + 0, t["l3_data"][m].w, t["l3_data"][m].x)
                    ELSE NoReach
  BY <1>3, <1>4, <1>6, <1>8, WalkSteps DEF k
<1>11. L.data_pa + m + 0 = L.data_pa + m
  BY <1>1, <1>2
<1>12. CASE leaves[m] = "none"
  <2>1. t["l3_data"][m].kind = "dead"
    BY <1>9, <1>12 DEF Dead
  <2> QED BY <1>3, <1>4, <1>10, <1>12, <2>1 DEF t, a
<1>13. CASE leaves[m] # "none"
  <2> DEFINE d == t["l3_data"][m]
  <2>1. d.kind = "page" /\ d.pa = L.data_pa + m /\ d.w = (leaves[m] = "Rw") /\ d.x = (leaves[m] = "Rx")
    BY <1>9, <1>13 DEF PageLeaf, Leaf
  <2> HIDE DEF d
  <2>2. Walk(t, a) = Hit(d.pa + 0, d.w, d.x)
    BY <1>10, <2>1 DEF d
  <2>3. Walk(t, a) = Hit(L.data_pa + m, leaves[m] = "Rw", leaves[m] = "Rx")
    BY <1>11, <2>1, <2>2
  <2> QED BY <1>3, <1>4, <1>13, <2>3 DEF t, a
<1> QED BY <1>12, <1>13

(* Whole blocks from an aligned base lead to an aligned address.             *)
LEMMA AlignedSum ==
    ASSUME NEW b \in Nat, b % BlockSize = 0, NEW q \in Nat
    PROVE  b + BlockSize * q \in Nat /\ (b + BlockSize * q) % BlockSize = 0
<1> DEFINE n == BlockSize
           c == b \div n
           s == b + n * q
           e == c + q
<1>1. n \in Nat \ {0}
  BY Geometry
<1>2. c \in Nat /\ b = n * c + (b % n) /\ b % n = 0
  BY <1>1, Quotient
<1> HIDE DEF n, c
<1>3. n * e = n * c + n * q /\ n * c \in Nat /\ n * q \in Nat /\ e \in Int
  BY <1>1, <1>2
<1>4. s = n * e + 0 /\ s \in Nat /\ 0 \in 0..(n - 1)
  BY <1>1, <1>2, <1>3
<1> HIDE DEF s, e
<1>5. s % n = 0
  BY <1>1, <1>3, <1>4, QuotientUnique
<1> QED BY <1>4, <1>5 DEF s, n

(* Places inside the super window.                                           *)
LEMMA SuperPlace ==
    ASSUME NEW L \in Layout, WellLaid(L), NEW m \in Idx, m < L.sup_frames, NEW k \in Idx
    PROVE  LET a == L.sup_ipa + BlockSize * m + k
           IN  /\ a \in Nat /\ a < Addressable /\ L1Of(a) = L1Of(L.sup_ipa) /\ L3Of(a) = k
               /\ L2Of(a) = L2Of(L.sup_ipa) + m /\ L2Of(a) = L2Of(SuperIpa(L, m))
               /\ Within(a, L.sup_ipa, L.sup_frames * BlockSize)
<1> DEFINE n == BlockSize
           b == L.sup_ipa
           f == L.sup_frames
           o == b % L1EntrySize
<1>1. /\ b \in Nat /\ b < Addressable /\ b % n = 0 /\ f \in Nat
      /\ o + f * n <= L1EntrySize /\ SuperSize(L) = n
  BY DEF WellLaid, Fits, Layout
<1>2. n \in Nat \ {0} /\ Idx = 0..(n - 1) /\ L1EntrySize \in Nat \ {0}
  BY Geometry
<1>3. o \in Nat
  <2>1. b % L1EntrySize \in 0..(L1EntrySize - 1)
    BY <1>1, <1>2, Quotient
  <2> QED BY <1>2, <2>1
<1>4. m \in Nat /\ k \in Nat /\ k < n
  BY <1>2
<1> HIDE DEF n, b, f, o
<1>5. n * m \in Nat /\ n * m + k < f * n /\ f * n \in Nat
  <2>0. f >= m + 1
    BY <1>1, <1>4 DEF f
  <2>1. f * n >= (m + 1) * n
    BY <1>1, <1>2, <1>4, <2>0
  <2>2. (m + 1) * n = n * m + n /\ n * m \in Nat /\ f * n \in Nat
    BY <1>1, <1>2, <1>4
  <2> QED BY <1>2, <1>4, <2>1, <2>2
<1>6. o + n * m + k < L1EntrySize /\ o + n * m + 0 < L1EntrySize
  BY <1>1, <1>2, <1>3, <1>4, <1>5
<1>7. 0 \in Idx
  BY <1>2
<1> DEFINE a == b + n * m + k
           a0 == b + n * m + 0
<1>8. a \in Nat /\ a < Addressable /\ L1Of(a) = L1Of(b) /\ L2Of(a) = L2Of(b) + m /\ L3Of(a) = k
  BY <1>1, <1>4, <1>6, InsideWindow DEF n, o
<1>9. L2Of(a0) = L2Of(b) + m
  BY <1>1, <1>4, <1>6, <1>7, InsideWindow DEF n, o
<1>10. SuperIpa(L, m) = a0
  <2>1. SuperIpa(L, m) = b + m * n
    BY <1>1 DEF SuperIpa, b
  <2>2. m * n = n * m
    BY <1>2, <1>4
  <2> QED BY <1>1, <1>5, <2>1, <2>2
<1>11. Within(a, b, f * n)
  BY <1>1, <1>4, <1>5 DEF Within
<1> HIDE DEF a, a0
<1>12. L2Of(a) = L2Of(SuperIpa(L, m))
  BY <1>8, <1>9, <1>10
<1> QED BY <1>8, <1>11, <1>12 DEF a, b, f, n

(* In the super window a walk finds the block of the super frame, with the   *)
(* access of its leaf, or nothing.                                           *)
LEMMA WalkSuper ==
    ASSUME NEW L \in Layout, WellLaid(L), NEW leaves, NEW supers,
           NEW m \in Idx, m < L.sup_frames, NEW k \in Idx
    PROVE  LET a == L.sup_ipa + BlockSize * m + k
           IN  Walk(Encoded(leaves, supers, L), a) =
                 IF supers[m] = "none" THEN NoReach
                 ELSE Hit(L.sup_pa + BlockSize * m + k, supers[m] = "Rw",
                          supers[m] = "Rx" \/ (supers[m] = "Rw" /\ L.wx_exempt))
<1> DEFINE t == Encoded(leaves, supers, L)
           a == L.sup_ipa + BlockSize * m + k
           pa == L.sup_pa + BlockSize * m
<1>1. /\ a \in Nat /\ a < Addressable /\ L1Of(a) = L1Of(L.sup_ipa) /\ L3Of(a) = k
      /\ L2Of(a) = L2Of(SuperIpa(L, m))
  BY SuperPlace
<1>2. BlockBase(SuperPa(L, m)) = pa
  <2>1. L.sup_pa \in Nat /\ L.sup_pa % BlockSize = 0 /\ SuperSize(L) = BlockSize
    BY DEF WellLaid, Layout
  <2>2. BlockSize \in Nat /\ m \in Nat
    BY Geometry
  <2>3. m * BlockSize = BlockSize * m
    BY <2>2
  <2>4. SuperPa(L, m) = pa
    BY <2>1, <2>3 DEF SuperPa
  <2>5. pa \in Nat /\ pa % BlockSize = 0
    BY <2>1, <2>2, AlignedSum
  <2> HIDE DEF pa
  <2> QED BY <2>4, <2>5, AlignedBase
<1> HIDE DEF a, pa
<1>3. t.l1[L1Of(a)] = TableDesc("l2_sup")
  BY <1>1, L1Entries
<1> DEFINE d == t["l2_sup"][L2Of(a)]
<1>4. d = IF supers[m] = "none" THEN Dead ELSE BlockLeaf(SuperPa(L, m), supers[m], L.wx_exempt)
  BY <1>1, SuperEntries
<1> HIDE DEF t
<1>5. /\ d.kind = "block" => Walk(t, a) = Hit(d.pa + k, d.w, d.x)
      /\ d.kind = "dead" => Walk(t, a) = NoReach
  BY <1>1, <1>3, WalkSteps
<1> HIDE DEF d
<1>6. CASE supers[m] = "none"
  <2>1. d.kind = "dead"
    BY <1>4, <1>6 DEF Dead
  <2> QED BY <1>5, <1>6, <2>1 DEF t, a
<1>7. CASE supers[m] # "none"
  <2>1. /\ d.kind = "block" /\ d.pa = pa /\ d.w = (supers[m] = "Rw")
        /\ d.x = (supers[m] = "Rx" \/ (supers[m] = "Rw" /\ L.wx_exempt))
    BY <1>2, <1>4, <1>7 DEF BlockLeaf, Leaf
  <2>2. Walk(t, a) = Hit(pa + k, d.w, d.x)
    BY <1>5, <2>1
  <2> QED BY <1>7, <2>1, <2>2 DEF t, a, pa
<1> QED BY <1>6, <1>7

(* In the device window a walk finds the device, to be written, never to be  *)
(* executed.                                                                 *)
LEMMA WalkDevice ==
    ASSUME NEW L \in Layout, WellLaid(L), NEW leaves, NEW supers,
           HasDevice(L), NEW a \in Nat, Within(a, L.device, L.device_len)
    PROVE  a < Addressable /\ Walk(Encoded(leaves, supers, L), a) = Hit(a, TRUE, FALSE)
<1> DEFINE t == Encoded(leaves, supers, L)
           n == BlockSize
           q == L2Of(a) - L2Of(L.device)
           k == L3Of(a)
           pa == L.device + n * q
           d == t["l2_dev"][L2Of(a)]
<1>1. Fits(L.device, L.device_len) /\ L.device \in Nat /\ L.device % n = 0 /\ L.device_len \in Nat
  BY DEF WellLaid, Fits
<1>2. n \in Nat \ {0} /\ Idx = 0..(n - 1)
  BY Geometry
<1>3. /\ a < Addressable /\ L1Of(a) = L1Of(L.device) /\ q \in Nat /\ k \in Idx
      /\ a = L.device + n * q + k /\ L2Of(a) \in Idx
  BY <1>1, WithinWindow
<1>4. n * q < L.device_len
  <2> HIDE DEF q, k, n
  <2>1. n * q \in Nat /\ k \in Nat
    BY <1>2, <1>3
  <2> QED BY <1>1, <1>3, <2>1 DEF Within
<1>5. d = DeviceBlock(pa)
  BY <1>3, <1>4, DeviceEntries
<1>6. BlockBase(pa) = pa
  <2>1. pa \in Nat /\ pa % n = 0
    <3> HIDE DEF q
    <3> QED BY <1>1, <1>3, AlignedSum
  <2> HIDE DEF pa
  <2> QED BY <2>1, AlignedBase
<1>7. t.l1[L1Of(a)] = TableDesc("l2_dev")
  BY <1>3, L1Entries
<1>8. a = pa + k
  BY <1>3
<1> HIDE DEF t, pa, k
<1>9. d.kind = "block" => Walk(t, a) = Hit(d.pa + k, d.w, d.x)
  BY <1>3, <1>7, WalkSteps DEF k
<1>10. d.kind = "block" /\ d.pa = pa /\ d.w = TRUE /\ d.x = FALSE
  BY <1>5, <1>6 DEF DeviceBlock, Leaf
<1> HIDE DEF d
<1>11. Walk(t, a) = Hit(pa + k, TRUE, FALSE)
  BY <1>9, <1>10
<1> QED BY <1>3, <1>8, <1>11 DEF t

(* Where the emission may have put leaves: base leaves outside the super     *)
(* partition, super leaves inside, and both on frames.                       *)
Placed(leaves, supers, L) ==
    /\ leaves \in LeafMap /\ supers \in LeafMap
    /\ \A m \in Idx : leaves[m] # "none" => m \in Frame /\ m >= L.sup_frames
    /\ \A m \in Idx : supers[m] # "none" => m \in Frame /\ m < L.sup_frames

(* Outside every window a walk finds nothing.                                *)
LEMMA WalkElsewhere ==
    ASSUME NEW L \in Layout, WellLaid(L), NEW leaves, NEW supers, Placed(leaves, supers, L),
           NEW a \in Nat, a < Addressable,
           ~Within(a, L.data_ipa, BlockSize), ~Within(a, L.sup_ipa, L.sup_frames * BlockSize),
           HasImage(L) => ~Within(a, L.image, BlockSize),
           HasDevice(L) => ~Within(a, L.device, L.device_len)
    PROVE  Walk(Encoded(leaves, supers, L), a) = NoReach
<1> DEFINE t == Encoded(leaves, supers, L)
           n == BlockSize
           k == L3Of(a)
<1>1. n \in Nat \ {0} /\ Idx = 0..(n - 1)
  BY Geometry
<1>2. L1Of(a) \in Idx /\ L2Of(a) \in Idx /\ k \in Idx /\ k \in Nat /\ k < n
  BY <1>1, Digits
<1>3. ASSUME NEW b, NEW span, Fits(b, span), L1Of(a) = L1Of(b)
      PROVE  a = b + n * (L2Of(a) - L2Of(b)) + k /\ b \in Nat /\ L2Of(b) \in Idx
  BY <1>3, SameEntry, BlockIndex DEF Fits
<1>4. ASSUME NEW b, Fits(b, n), L1Of(a) = L1Of(b), ~Within(a, b, n)
      PROVE  L2Of(a) # L2Of(b)
  <2> SUFFICES ASSUME L2Of(a) = L2Of(b) PROVE FALSE
    OBVIOUS
  <2>1. a = b + n * (L2Of(a) - L2Of(b)) + k /\ b \in Nat
    BY <1>3, <1>4
  <2>2. L2Of(a) - L2Of(b) = 0
    BY <1>1, <1>2
  <2> HIDE DEF n, k
  <2>3. a = b + k
    BY <1>1, <1>2, <2>1, <2>2
  <2> QED BY <1>1, <1>2, <1>4, <2>1, <2>3 DEF Within
<1>5. ASSUME NEW name, t.l1[L1Of(a)] = TableDesc(name), t[name][L2Of(a)] = Dead
      PROVE  Walk(t, a) = NoReach
  <2>1. t[name][L2Of(a)].kind = "dead"
    BY <1>5 DEF Dead
  <2> HIDE DEF t
  <2> QED BY <1>5, <2>1, WalkSteps
<1>6. CASE L1Of(a) = L1Of(L.data_ipa)
  <2>1. L2Of(a) # L2Of(L.data_ipa)
    BY <1>4, <1>6 DEF WellLaid
  <2>2. t.l1[L1Of(a)] = TableDesc("l2_data")
    BY <1>6, L1Entries
  <2>3. t["l2_data"][L2Of(a)] = Dead
    BY <1>2, <2>1, PageEntries
  <2> HIDE DEF t
  <2>4. Walk(t, a) = NoReach
    BY <1>5, <2>2, <2>3
  <2> QED BY <2>4 DEF t
<1>7. CASE HasImage(L) /\ L1Of(a) = L1Of(L.image)
  <2>1. L2Of(a) # L2Of(L.image)
    BY <1>4, <1>7 DEF WellLaid
  <2>2. t.l1[L1Of(a)] = TableDesc("l2_code")
    BY <1>7, L1Entries
  <2>3. t["l2_code"][L2Of(a)] = Dead
    BY <1>2, <1>7, <2>1, PageEntries
  <2> HIDE DEF t
  <2>4. Walk(t, a) = NoReach
    BY <1>5, <2>2, <2>3
  <2> QED BY <2>4 DEF t
<1>8. CASE L1Of(a) = L1Of(L.sup_ipa)
  <2>1. ASSUME NEW m \in Idx, L2Of(SuperIpa(L, m)) = L2Of(a), supers[m] # "none"
        PROVE  FALSE
    <3>1. m < L.sup_frames
      BY <2>1 DEF Placed
    <3> DEFINE c == L.sup_ipa + n * m + k
    <3>2. /\ L2Of(c) = L2Of(L.sup_ipa) + m /\ L2Of(c) = L2Of(SuperIpa(L, m))
          /\ Within(c, L.sup_ipa, L.sup_frames * n)
      BY <1>2, <3>1, SuperPlace
    <3>3. a = L.sup_ipa + n * (L2Of(a) - L2Of(L.sup_ipa)) + k /\ L2Of(L.sup_ipa) \in Idx
      BY <1>3, <1>8 DEF WellLaid
    <3>4. L2Of(a) - L2Of(L.sup_ipa) = m
      BY <1>1, <1>2, <2>1, <3>2, <3>3
    <3>5. a = c
      BY <3>3, <3>4
    <3> QED BY <3>2, <3>5
  <2>2. t.l1[L1Of(a)] = TableDesc("l2_sup")
    BY <1>8, L1Entries
  <2>3. t["l2_sup"][L2Of(a)] = Dead
    BY <1>2, <2>1, SuperEntries
  <2> HIDE DEF t
  <2>4. Walk(t, a) = NoReach
    BY <1>5, <2>2, <2>3
  <2> QED BY <2>4 DEF t
<1>9. CASE HasDevice(L) /\ L1Of(a) = L1Of(L.device)
  <2> DEFINE q == L2Of(a) - L2Of(L.device)
             len == L.device_len
             c == len \div n
  <2>1. Fits(L.device, len) /\ len \in Nat /\ len % n = 0 /\ ~Within(a, L.device, len)
    BY <1>9 DEF WellLaid, Fits
  <2>2. a = L.device + n * q + k /\ L.device \in Nat
    BY <1>3, <1>9, <2>1
  <2>3. ASSUME q \in Nat, n * q < len PROVE FALSE
    <3> HIDE DEF n, q, k, len
    <3>1. c \in Nat /\ len = n * c + (len % n)
      BY <1>1, <2>1, Quotient
    <3> HIDE DEF c
    <3>2. n * c \in Nat /\ n * q \in Nat
      BY <1>1, <2>3, <3>1
    <3>3. len = n * c
      BY <2>1, <3>1, <3>2
    <3>4. q < c
      <4> SUFFICES ASSUME q >= c PROVE FALSE
        BY <2>3, <3>1
      <4>1. n * q >= n * c
        BY <1>1, <2>3, <3>1
      <4> QED BY <2>3, <3>2, <3>3, <4>1
    <3>5. n * c >= n * (q + 1)
      BY <1>1, <2>3, <3>1, <3>4
    <3>6. n * (q + 1) = n * q + n
      BY <1>1, <2>3
    <3>7. n * q + k < len
      BY <1>1, <1>2, <3>2, <3>3, <3>5, <3>6
    <3> QED BY <1>2, <2>1, <2>2, <3>2, <3>7 DEF Within
  <2>4. t.l1[L1Of(a)] = TableDesc("l2_dev")
    BY <1>9, L1Entries
  <2>5. t["l2_dev"][L2Of(a)] = Dead
    BY <1>2, <1>9, <2>3, DeviceEntries
  <2> HIDE DEF t
  <2>6. Walk(t, a) = NoReach
    BY <1>5, <2>4, <2>5
  <2> QED BY <2>6 DEF t
<1>10. CASE /\ L1Of(a) # L1Of(L.data_ipa) /\ L1Of(a) # L1Of(L.sup_ipa)
            /\ HasImage(L) => L1Of(a) # L1Of(L.image)
            /\ HasDevice(L) => L1Of(a) # L1Of(L.device)
  <2>1. t.l1[L1Of(a)] = Dead
    BY <1>2, <1>10, L1Entries
  <2>2. t.l1[L1Of(a)].kind # "table"
    BY <2>1 DEF Dead
  <2> QED BY <2>2 DEF Walk
<1> QED BY <1>6, <1>7, <1>8, <1>9, <1>10

(* A place in the super window, by block and page.                           *)
LEMMA SuperDigits ==
    ASSUME NEW L \in Layout, WellLaid(L), NEW a \in Nat,
           Within(a, L.sup_ipa, L.sup_frames * BlockSize)
    PROVE  \E m, k \in Idx : m < L.sup_frames /\ a = L.sup_ipa + BlockSize * m + k
<1> DEFINE n == BlockSize
           m == L2Of(a) - L2Of(L.sup_ipa)
           k == L3Of(a)
           f == L.sup_frames
<1>1. n \in Nat \ {0} /\ Idx = 0..(n - 1) /\ L.sup_ipa \in Nat /\ f \in Nat
  BY Geometry DEF Layout
<1>2. /\ m \in Nat /\ k \in Idx /\ a = L.sup_ipa + n * m + k
      /\ L2Of(a) \in Idx /\ L2Of(L.sup_ipa) \in Idx
  BY WithinWindow DEF WellLaid
<1>3. m \in Idx
  BY <1>1, <1>2
<1>4. a < L.sup_ipa + f * n
  BY DEF Within
<1> HIDE DEF n, m, k, f
<1>5. m < f
  <2> SUFFICES ASSUME m >= f PROVE FALSE
    BY <1>1, <1>2
  <2>1. n * m >= f * n /\ n * m \in Nat /\ f * n \in Nat
    BY <1>1, <1>2
  <2> QED BY <1>1, <1>2, <1>4, <2>1
<1> QED BY <1>2, <1>3, <1>5 DEF n, f

SuperX(perm, L) == perm = "Rx" \/ (perm = "Rw" /\ L.wx_exempt)

(* What a walk can find.                                                     *)
FoundImage(r, a, L) == HasImage(L) /\ Within(a, L.image, BlockSize) /\ r = Hit(a, FALSE, TRUE)
FoundDevice(r, a, L) == HasDevice(L) /\ Within(a, L.device, L.device_len) /\ r = Hit(a, TRUE, FALSE)
FoundData(r, a, leaves, L, m) ==
    /\ m \in Idx /\ m \in Frame /\ m >= L.sup_frames /\ leaves[m] # "none"
    /\ a = L.data_ipa + m
    /\ r = Hit(L.data_pa + m, leaves[m] = "Rw", leaves[m] = "Rx")
FoundSuper(r, a, supers, L, m, k) ==
    /\ m \in Idx /\ k \in Idx /\ m \in Frame /\ m < L.sup_frames /\ supers[m] # "none"
    /\ a = L.sup_ipa + BlockSize * m + k
    /\ r = Hit(L.sup_pa + BlockSize * m + k, supers[m] = "Rw", SuperX(supers[m], L))

(* A walk that finds something finds the image, the page of a base leaf, a   *)
(* place of a super leaf, or the device.                                     *)
LEMMA WalkFinds ==
    ASSUME NEW L \in Layout, WellLaid(L), NEW leaves, NEW supers, Placed(leaves, supers, L),
           NEW a \in Nat, a < Addressable, Walk(Encoded(leaves, supers, L), a) # NoReach
    PROVE  LET r == Walk(Encoded(leaves, supers, L), a)
           IN  \/ FoundImage(r, a, L) \/ FoundDevice(r, a, L)
               \/ \E m : FoundData(r, a, leaves, L, m)
               \/ \E m, k : FoundSuper(r, a, supers, L, m, k)
<1> DEFINE r == Walk(Encoded(leaves, supers, L), a)
<1>1. CASE HasImage(L) /\ Within(a, L.image, BlockSize)
  BY <1>1, WalkImage DEF FoundImage
<1>2. CASE HasDevice(L) /\ Within(a, L.device, L.device_len)
  BY <1>2, WalkDevice DEF FoundDevice
<1>3. CASE Within(a, L.data_ipa, BlockSize)
  <2> DEFINE m == a - L.data_ipa
  <2>1. m \in Idx /\ a = L.data_ipa + m
    BY <1>3, Geometry DEF Within, Layout
  <2> HIDE DEF m
  <2>2. r = IF leaves[m] = "none" THEN NoReach
            ELSE Hit(L.data_pa + m, leaves[m] = "Rw", leaves[m] = "Rx")
    BY <2>1, WalkData
  <2> HIDE DEF r
  <2>3. leaves[m] # "none"
    BY <2>2 DEF r
  <2>4. FoundData(r, a, leaves, L, m)
    BY <2>1, <2>2, <2>3 DEF FoundData, Placed
  <2> QED BY <2>4 DEF r
<1>4. CASE Within(a, L.sup_ipa, L.sup_frames * BlockSize)
  <2>1. PICK m, k \in Idx : m < L.sup_frames /\ a = L.sup_ipa + BlockSize * m + k
    BY <1>4, SuperDigits
  <2>2. r = IF supers[m] = "none" THEN NoReach
            ELSE Hit(L.sup_pa + BlockSize * m + k, supers[m] = "Rw",
                     supers[m] = "Rx" \/ (supers[m] = "Rw" /\ L.wx_exempt))
    BY <2>1, WalkSuper
  <2> HIDE DEF r
  <2>3. supers[m] # "none"
    BY <2>2 DEF r
  <2>4. FoundSuper(r, a, supers, L, m, k)
    BY <2>1, <2>2, <2>3 DEF FoundSuper, Placed, SuperX
  <2> QED BY <2>4 DEF r
<1>5. CASE /\ ~Within(a, L.data_ipa, BlockSize) /\ ~Within(a, L.sup_ipa, L.sup_frames * BlockSize)
           /\ HasImage(L) => ~Within(a, L.image, BlockSize)
           /\ HasDevice(L) => ~Within(a, L.device, L.device_len)
  BY <1>5, WalkElsewhere
<1> QED BY <1>1, <1>2, <1>3, <1>4, <1>5

(* The place of a super leaf is in the backing of the super window, and in   *)
(* no other block of it.                                                     *)
LEMMA SuperBacking ==
    ASSUME NEW L \in Layout, NEW m \in Nat, m < L.sup_frames, NEW k \in Idx
    PROVE  LET pa == L.sup_pa + BlockSize * m + k
           IN  /\ pa \in Nat /\ Within(pa, L.sup_pa, L.sup_frames * BlockSize)
               /\ \A p \in Nat : \A j \in Idx : pa = L.sup_pa + BlockSize * p + j => p = m /\ j = k
<1> DEFINE n == BlockSize
           f == L.sup_frames
           b == L.sup_pa
           pa == b + n * m + k
<1>1. n \in Nat \ {0} /\ Idx = 0..(n - 1) /\ b \in Nat /\ f \in Nat /\ m < f
  BY Geometry DEF Layout
<1> HIDE DEF n, f, b
<1>2. n * m \in Nat /\ f * n \in Nat /\ n * m + n <= f * n
  <2>1. f * n >= (m + 1) * n
    BY <1>1
  <2>2. (m + 1) * n = n * m + n /\ n * m \in Nat /\ f * n \in Nat
    BY <1>1
  <2> QED BY <1>1, <2>1, <2>2
<1>3. pa \in Nat /\ Within(pa, b, f * n)
  BY <1>1, <1>2 DEF Within
<1>4. ASSUME NEW p \in Nat, NEW j \in Idx, pa = b + n * p + j PROVE p = m /\ j = k
  <2> DEFINE c == n * m + k
  <2>1. n * p \in Nat /\ j \in Nat /\ k \in Nat
    BY <1>1
  <2>2. c \in Nat /\ c = n * p + j /\ c = n * m + k
    BY <1>1, <1>2, <1>4, <2>1
  <2>3. p \in Int /\ m \in Int /\ j \in 0..(n - 1) /\ k \in 0..(n - 1)
    BY <1>1
  <2> HIDE DEF c
  <2>4. c % n = j /\ c \div n = p
    BY <1>1, <2>2, <2>3, QuotientUnique
  <2>5. c % n = k /\ c \div n = m
    BY <1>1, <2>2, <2>3, QuotientUnique
  <2> QED BY <2>4, <2>5
<1> QED BY <1>3, <1>4 DEF n, f, b

(* A page that a base or a super leaf reaches is scrubbed with that leaf's   *)
(* frame and with no other.                                                  *)
LEMMA ScrubUnique ==
    ASSUME NEW L \in Layout, WellLaid(L), NEW pa, NEW m \in Frame,
           \/ m >= L.sup_frames /\ pa = L.data_pa + m
           \/ m < L.sup_frames /\ \E k \in Idx : pa = L.sup_pa + BlockSize * m + k
    PROVE  {f \in Frame : pa \in ScrubRange(L, f)} = {m}
<1> DEFINE n == BlockSize
<1>1. /\ n \in Nat \ {0} /\ Idx = 0..(n - 1)
      /\ L.data_pa \in Nat /\ L.sup_pa \in Nat /\ L.sup_frames \in Nat
  BY Geometry DEF Layout
<1>2. \A f \in Frame : f \in Nat /\ f \in Idx
  BY Geometry, FramesAssumption, Stage2Assumption DEF Frame
<1>3. ~Overlaps(L.data_pa, n, L.sup_pa, L.sup_frames * n)
  BY DEF WellLaid
<1>4. ASSUME NEW f \in Frame, f >= L.sup_frames
      PROVE  pa \in ScrubRange(L, f) <=> pa = L.data_pa + f
  <2>1. FramePa(L, f) = L.data_pa + f /\ L.frame_size = 1
    BY <1>1, <1>2 DEF FramePa, WellLaid
  <2>2. ScrubRange(L, f) = FramePa(L, f)..(FramePa(L, f) + L.frame_size - 1)
    BY <1>1, <1>2, <1>4 DEF ScrubRange
  <2> DEFINE c == L.data_pa + f
  <2>3. c \in Nat /\ ScrubRange(L, f) = c..(c + 1 - 1)
    BY <1>1, <1>2, <2>1, <2>2
  <2> HIDE DEF c
  <2>4. c..(c + 1 - 1) = {c}
    BY <2>3
  <2> QED BY <2>3, <2>4 DEF c
<1>5. ASSUME NEW f \in Frame, f < L.sup_frames
      PROVE  pa \in ScrubRange(L, f) <=> \E k \in Idx : pa = L.sup_pa + n * f + k
  <2>1. SuperPa(L, f) = L.sup_pa + n * f /\ SuperSize(L) = n /\ n * f \in Nat
    BY <1>1, <1>2 DEF SuperPa, WellLaid
  <2>2. ScrubRange(L, f) = SuperPa(L, f)..(SuperPa(L, f) + SuperSize(L) - 1)
    BY <1>5 DEF ScrubRange
  <2> DEFINE b == L.sup_pa + n * f
  <2>3. b \in Nat /\ ScrubRange(L, f) = b..(b + n - 1)
    BY <1>1, <2>1, <2>2
  <2> HIDE DEF b, n
  <2>4. pa \in b..(b + n - 1) <=> \E k \in Idx : pa = b + k
    <3>1. ASSUME pa \in b..(b + n - 1) PROVE \E k \in Idx : pa = b + k
      <4>1. pa - b \in Idx /\ pa = b + (pa - b)
        BY <1>1, <2>3, <3>1
      <4> QED BY <4>1
    <3>2. ASSUME NEW k \in Idx, pa = b + k PROVE pa \in b..(b + n - 1)
      BY <1>1, <2>3, <3>2
    <3> QED BY <3>1, <3>2
  <2> QED BY <2>3, <2>4 DEF b
<1>6. ASSUME NEW f \in Frame, NEW g \in Frame, f >= L.sup_frames, pa = L.data_pa + f,
             g < L.sup_frames, NEW k \in Idx, pa = L.sup_pa + n * g + k
      PROVE  FALSE
  <2>1. Within(pa, L.sup_pa, L.sup_frames * n) /\ pa \in Nat
    BY <1>2, <1>6, SuperBacking
  <2>2. L.sup_frames * n \in Nat /\ f \in Nat /\ f < n
    BY <1>1, <1>2
  <2> DEFINE size == L.sup_frames * n
  <2>3. /\ pa >= L.sup_pa /\ pa < L.sup_pa + size
        /\ ~(L.data_pa < L.sup_pa + size /\ L.sup_pa < L.data_pa + n)
    BY <1>3, <2>1 DEF Overlaps, Within
  <2>4. pa = L.data_pa + f /\ size \in Nat
    BY <1>6, <2>2
  <2> HIDE DEF size, n
  <2> QED BY <1>1, <2>1, <2>2, <2>3, <2>4
<1>7. CASE m >= L.sup_frames /\ pa = L.data_pa + m
  <2>1. ASSUME NEW f \in Frame, pa \in ScrubRange(L, f) PROVE f = m
    <3>1. CASE f >= L.sup_frames
      BY <1>1, <1>2, <1>4, <1>7, <2>1, <3>1
    <3>2. CASE f < L.sup_frames
      BY <1>5, <1>6, <1>7, <2>1, <3>2
    <3> QED BY <1>1, <1>2, <3>1, <3>2
  <2>2. pa \in ScrubRange(L, m)
    BY <1>4, <1>7
  <2> QED BY <2>1, <2>2
<1>8. CASE m < L.sup_frames /\ \E k \in Idx : pa = L.sup_pa + n * m + k
  <2>1. ASSUME NEW f \in Frame, pa \in ScrubRange(L, f) PROVE f = m
    <3>1. CASE f >= L.sup_frames
      BY <1>4, <1>6, <1>8, <2>1, <3>1
    <3>2. CASE f < L.sup_frames
      <4>1. PICK j \in Idx : pa = L.sup_pa + n * f + j
        BY <1>5, <2>1, <3>2
      <4>2. PICK k \in Idx : pa = L.sup_pa + n * m + k
        BY <1>8
      <4> QED BY <1>2, <1>8, <4>1, <4>2, SuperBacking
    <3> QED BY <1>1, <1>2, <3>1, <3>2
  <2>2. pa \in ScrubRange(L, m)
    BY <1>5, <1>8
  <2> QED BY <2>1, <2>2
<1> QED BY <1>7, <1>8

-----------------------------------------------------------------------------
(* The self-test.                                                            *)

(* The decoder computes the address of a device entry from the other side.   *)
LEMMA DeviceDecoded ==
    ASSUME NEW L \in Layout, WellLaid(L), NEW leaves, NEW supers, NEW i \in Idx
    PROVE  LET a == L.device - (L.device % L1EntrySize) + i * BlockSize
           IN  Encoded(leaves, supers, L).l2_dev[i] =
                 IF L.device_len > 0 /\ a >= L.device /\ a < L.device + L.device_len
                 THEN DeviceBlock(a) ELSE Dead
<1> DEFINE t == Encoded(leaves, supers, L)
           n == BlockSize
           B == L1EntrySize
           l == L2Of(L.device)
           q == i - l
           a == L.device - (L.device % B) + i * n
<1>1. CASE ~HasDevice(L)
  BY <1>1, DeviceEntries DEF HasDevice
<1>2. CASE HasDevice(L)
  <2>1. L.device \in Nat /\ L.device < Addressable /\ L.device % n = 0 /\ L.device_len \in Nat
    BY <1>2 DEF WellLaid, Fits
  <2>2. n \in Nat \ {0} /\ Idx = 0..(n - 1) /\ TableEntries = n /\ B \in Nat
    BY Geometry
  <2>3. L1Of(L.device) \in Idx /\ l \in Idx /\ L.device = B * L1Of(L.device) + n * l + L3Of(L.device)
    BY <2>1, Digits
  <2>4. L3Of(L.device) = 0 /\ 0 \in Idx
    BY <2>1, <2>2 DEF L3Of
  <2>5. L.device % B = n * l + 0
    BY <2>1, <2>3, <2>4, DigitsUnique
  <2>6. t.l2_dev[i] = IF q \in Nat /\ n * q < L.device_len THEN DeviceBlock(L.device + n * q) ELSE Dead
    BY <1>2, DeviceEntries
  <2> HIDE DEF t, n, B, l
  <2>7. n * q = i * n - n * l /\ n * l \in Nat /\ i * n \in Nat
    BY <2>2, <2>3
  <2>8. a = L.device + n * q /\ n * q \in Int
    BY <2>1, <2>5, <2>7
  <2>9. q \in Int
    BY <2>2, <2>3
  <2> HIDE DEF q, a
  <2>10. q \in Nat <=> a >= L.device
    <3>1. CASE q >= 0
      <4>1. n * q >= 0
        BY <2>2, <2>9, <3>1
      <4> QED BY <2>1, <2>8, <2>9, <3>1, <4>1
    <3>2. CASE q <= -1
      <4>1. n * q <= -n
        BY <2>2, <2>9, <3>2
      <4> QED BY <2>1, <2>2, <2>8, <3>2, <4>1
    <3> QED BY <2>9, <3>1, <3>2
  <2>11. n * q < L.device_len <=> a < L.device + L.device_len
    BY <2>1, <2>8
  <2>12. L.device_len > 0
    BY <1>2 DEF HasDevice
  <2>13. t.l2_dev[i] = IF L.device_len > 0 /\ a >= L.device /\ a < L.device + L.device_len
                       THEN DeviceBlock(a) ELSE Dead
    BY <2>6, <2>8, <2>10, <2>11, <2>12
  <2> QED BY <2>13 DEF t, a, n, B
<1> QED BY <1>1, <1>2

(* The decoder accepts what the encoder wrote.                               *)
LEMMA DecoderAgrees ==
    ASSUME NEW L \in Layout, Validate(L), NEW leaves \in LeafMap, NEW supers \in LeafMap
    PROVE  VerifyEncoding(Encoded(leaves, supers, L), leaves, supers, L)
<1> DEFINE t == Encoded(leaves, supers, L)
<1>1. WellLaid(L)
  BY ValidateWellLaid
<1>2. HasDevice(L) <=> L.device_len # 0
  BY DEF HasDevice, Layout
<1>3. \A e \in LiveL1(L) : t.l1[e.at] = TableDesc(e.to)
  BY <1>1, <1>2, L1Entries DEF LiveL1, HasImage
<1>4. DeadExcept(t.l1, {e.at : e \in LiveL1(L)})
  <2> SUFFICES ASSUME NEW i \in Idx, \A e \in LiveL1(L) : e.at # i PROVE t.l1[i] = Dead
    BY DEF DeadExcept
  <2>1. /\ [at |-> L1Of(L.data_ipa), to |-> "l2_data"] \in LiveL1(L)
        /\ [at |-> L1Of(L.sup_ipa), to |-> "l2_sup"] \in LiveL1(L)
        /\ HasImage(L) => [at |-> L1Of(L.image), to |-> "l2_code"] \in LiveL1(L)
        /\ HasDevice(L) => [at |-> L1Of(L.device), to |-> "l2_dev"] \in LiveL1(L)
    BY <1>2 DEF LiveL1, HasImage
  <2>2. /\ i # L1Of(L.data_ipa) /\ i # L1Of(L.sup_ipa)
        /\ HasImage(L) => i # L1Of(L.image)
        /\ HasDevice(L) => i # L1Of(L.device)
    BY <2>1
  <2> QED BY <1>1, <2>2, L1Entries
<1>5. IF L.image = NoImage THEN DeadExcept(t.l2_code, {})
      ELSE t.l2_code[L2Of(L.image)] = ImageBlock(L.image) /\ DeadExcept(t.l2_code, {L2Of(L.image)})
  BY <1>1, PageEntries DEF DeadExcept, HasImage
<1>6. /\ t.l2_data[L2Of(L.data_ipa)] = TableDesc("l3_data")
      /\ DeadExcept(t.l2_data, {L2Of(L.data_ipa)})
  BY <1>1, PageEntries DEF DeadExcept
<1>7. ASSUME NEW m \in Idx PROVE Finds(t.l3_data[m], "page", FramePa(L, m), leaves[m], FALSE)
  <2>1. FramePa(L, m) = L.data_pa + m
    <3>1. L.frame_size = 1 /\ m \in Int
      BY <1>1, Geometry DEF WellLaid
    <3> QED BY <3>1 DEF FramePa
  <2> DEFINE d == t.l3_data[m]
  <2>2. d = IF leaves[m] = "none" THEN Dead ELSE PageLeaf(L.data_pa + m, leaves[m])
    BY <1>1, PageEntries
  <2> HIDE DEF d
  <2>3. Finds(d, "page", L.data_pa + m, leaves[m], FALSE)
    BY <2>2 DEF Finds, LeafAccess, PageLeaf, Leaf
  <2> QED BY <2>1, <2>3 DEF d
<1>8. ASSUME NEW m \in Idx
      PROVE  Finds(t.l2_sup[L2Of(SuperIpa(L, m))], "block", BlockBase(SuperPa(L, m)),
                   supers[m], L.wx_exempt)
  <2> DEFINE d == t.l2_sup[L2Of(SuperIpa(L, m))]
  <2>1. d = IF supers[m] = "none" THEN Dead ELSE BlockLeaf(SuperPa(L, m), supers[m], L.wx_exempt)
    BY <1>1, SuperEntries
  <2> HIDE DEF d
  <2>2. Finds(d, "block", BlockBase(SuperPa(L, m)), supers[m], L.wx_exempt)
    BY <2>1 DEF Finds, LeafAccess, BlockLeaf, Leaf
  <2> QED BY <2>2 DEF d
<1>9. \A i \in Idx :
        LET a == L.device - (L.device % L1EntrySize) + i * BlockSize
        IN  t.l2_dev[i] = IF L.device_len > 0 /\ a >= L.device /\ a < L.device + L.device_len
                          THEN DeviceBlock(a) ELSE Dead
  BY <1>1, DeviceDecoded
<1> HIDE DEF t
<1> QED BY <1>3, <1>4, <1>5, <1>6, <1>7, <1>8, <1>9 DEF VerifyEncoding, t

-----------------------------------------------------------------------------
(* Exactness.                                                                *)

(* The entries are well formed, and none is both writable and executable.    *)
EntriesSound ==
    /\ links \subseteq LinkState
    /\ \A l \in links : l.execute => ~l.writable

(* The access of an entry is the access of its permission.                   *)
LEMMA PermAccess ==
    ASSUME EntriesSound, NEW l \in links
    PROVE  /\ PermOf(l) \in {"Rw", "Ro", "Rx"}
           /\ (PermOf(l) = "Rw") = l.writable /\ (PermOf(l) = "Rx") = l.execute
           /\ l.child \in Frame /\ l.child \in Idx /\ l.child \in Nat
<1>1. l.writable \in BOOLEAN /\ l.execute \in BOOLEAN /\ l.child \in Frame
  BY DEF EntriesSound, LinkState
<1>2. l.child \in Idx /\ l.child \in Nat
  BY <1>1, Geometry, FramesAssumption, Stage2Assumption DEF Frame
<1>3. l.execute => ~l.writable
  BY DEF EntriesSound
<1> QED BY <1>1, <1>2, <1>3 DEF PermOf

(* A leaf map has a permission where the domain has a leaf of the span, and  *)
(* then one of those leaves'.                                                *)
LEMMA MapSays ==
    ASSUME EntriesSound, NEW d, NEW span, NEW map \in LeafMaps(d, span)
    PROVE  /\ map \in LeafMap
           /\ \A m \in Idx : map[m] # "none" =>
                \E l \in SpanLeaves(d, span) : l.child = m /\ map[m] = PermOf(l)
           /\ \A l \in SpanLeaves(d, span) : l.child \in Idx /\ map[l.child] # "none"
<1> DEFINE perms(m) == {PermOf(l) : l \in {k \in SpanLeaves(d, span) : k.child = m}}
<1>1. /\ map \in LeafMap
      /\ \A m \in Idx : IF perms(m) = {} THEN map[m] = "none" ELSE map[m] \in perms(m)
  BY DEF LeafMaps, LeafMap
<1>2. ASSUME NEW m \in Idx, map[m] # "none"
      PROVE  \E l \in SpanLeaves(d, span) : l.child = m /\ map[m] = PermOf(l)
  <2>1. map[m] \in perms(m)
    BY <1>1, <1>2
  <2> QED BY <2>1
<1>3. ASSUME NEW l \in SpanLeaves(d, span) PROVE l.child \in Idx /\ map[l.child] # "none"
  <2>1. l \in links
    BY DEF SpanLeaves, LeavesOf
  <2>2. l.child \in Idx
    BY <2>1, PermAccess
  <2>3. PermOf(l) \in perms(l.child)
    OBVIOUS
  <2>4. map[l.child] \in perms(l.child)
    BY <1>1, <2>2, <2>3
  <2>5. PICK k \in SpanLeaves(d, span) : map[l.child] = PermOf(k)
    BY <2>4
  <2>6. k \in links
    BY DEF SpanLeaves, LeavesOf
  <2> QED BY <2>2, <2>5, <2>6, PermAccess
<1> QED BY <1>1, <1>2, <1>3

(* What the emission does not refuse is placed where the windows are.        *)
LEMMA MapsPlaced ==
    ASSUME EntriesSound, NEW d, NEW L, Representable(d, L),
           NEW leaves \in LeafMaps(d, "base"), NEW supers \in LeafMaps(d, "super")
    PROVE  Placed(leaves, supers, L)
<1>1. \A span : \A l \in SpanLeaves(d, span) : l \in links
  BY DEF SpanLeaves, LeavesOf
<1>2. \A m \in Idx : leaves[m] # "none" => m \in Frame /\ m >= L.sup_frames
  <2> TAKE m \in Idx
  <2> HAVE leaves[m] # "none"
  <2>1. PICK l \in SpanLeaves(d, "base") : l.child = m
    BY MapSays
  <2> QED BY <1>1, <2>1, PermAccess DEF Representable
<1>3. \A m \in Idx : supers[m] # "none" => m \in Frame /\ m < L.sup_frames
  <2> TAKE m \in Idx
  <2> HAVE supers[m] # "none"
  <2>1. PICK l \in SpanLeaves(d, "super") : l.child = m
    BY MapSays
  <2> QED BY <1>1, <2>1, PermAccess DEF Representable
<1> QED BY <1>2, <1>3, MapSays DEF Placed

(* With nothing refused, the span of a leaf is the level of its table.       *)
LEMMA SpanByLevel ==
    ASSUME NEW d, Representable(d, layout), NEW l
    PROVE  /\ l \in SpanLeaves(d, "base") <=>
                l \in links /\ l.leaf /\ frames[l.parent].owner = d /\ frames[l.parent].pt_level = 1
           /\ l \in SpanLeaves(d, "super") <=>
                l \in links /\ l.leaf /\ frames[l.parent].owner = d /\ frames[l.parent].pt_level = 2
<1>1. \A k \in LeavesOf(d) : IsTable(frames, k.parent)
  BY DEF Representable, SpanOf
<1>2. l \in LeavesOf(d) => (SpanOf(frames, l.parent) = "base" <=> frames[l.parent].pt_level = 1)
  BY <1>1 DEF Representable, SpanOf
<1>3. l \in LeavesOf(d) => (SpanOf(frames, l.parent) = "super" <=> frames[l.parent].pt_level = 2)
  BY <1>1 DEF Representable, SpanOf
<1> QED BY <1>2, <1>3 DEF SpanLeaves, LeavesOf

(* What is authorised at an address, leaf by leaf.                           *)
LEMMA AuthorisedSays ==
    ASSUME layout \in Layout, NEW d, Representable(d, layout), NEW a \in Nat, NEW r
    PROVE  r \in Authorised(d, a) <=>
             \/ FoundImage(r, a, layout) \/ FoundDevice(r, a, layout)
             \/ \E l \in SpanLeaves(d, "base") :
                  a = layout.data_ipa + l.child
                  /\ r = Hit(layout.data_pa + l.child, l.writable, l.execute)
             \/ \E l \in SpanLeaves(d, "super") :
                  /\ a \in (layout.sup_ipa + l.child * BlockSize)
                           ..(layout.sup_ipa + (l.child + 1) * BlockSize - 1)
                  /\ r = Hit(layout.sup_pa + (a - layout.sup_ipa), l.writable,
                             l.execute \/ (l.writable /\ layout.wx_exempt))
<1> DEFINE L == layout
           own(level) == {l \in links : l.leaf /\ frames[l.parent].owner = d
                                               /\ frames[l.parent].pt_level = level}
           img == {Hit(a, FALSE, TRUE) : i \in
                     {j \in {L.image} : j # NoImage /\ a \in j..(j + BlockSize - 1)}}
           bas == {Hit(L.data_pa + l.child, l.writable, l.execute) : l \in
                     {k \in own(1) : a = L.data_ipa + k.child}}
           sup == {Hit(L.sup_pa + (a - L.sup_ipa), l.writable,
                       l.execute \/ (l.writable /\ L.wx_exempt)) : l \in
                     {k \in own(2) : a \in (L.sup_ipa + k.child * BlockSize)
                                           ..(L.sup_ipa + (k.child + 1) * BlockSize - 1)}}
           dev == {Hit(a, TRUE, FALSE) : i \in
                     {j \in {L.device} : a >= j /\ a < j + L.device_len}}
<1>1. Authorised(d, a) = img \cup bas \cup sup \cup dev
  BY DEF Authorised, Hit
<1>2. own(1) = SpanLeaves(d, "base") /\ own(2) = SpanLeaves(d, "super")
  BY SpanByLevel
<1>3. r \in img <=> FoundImage(r, a, layout)
  <2>1. HasImage(L) => L.image \in Nat
    BY DEF HasImage, Layout
  <2>2. HasImage(L) => (a \in L.image..(L.image + BlockSize - 1) <=> Within(a, L.image, BlockSize))
    BY <2>1, Geometry DEF Within
  <2> QED BY <2>2 DEF FoundImage, HasImage
<1>4. r \in dev <=> FoundDevice(r, a, layout)
  <2>1. L.device \in Nat /\ L.device_len \in Nat
    BY DEF Layout
  <2>2. a >= L.device /\ a < L.device + L.device_len => L.device_len > 0
    BY <2>1
  <2> QED BY <2>2 DEF FoundDevice, HasDevice, Within
<1>5. r \in bas <=> \E l \in SpanLeaves(d, "base") :
                        a = L.data_ipa + l.child
                        /\ r = Hit(L.data_pa + l.child, l.writable, l.execute)
  BY <1>2
<1>6. r \in sup <=> \E l \in SpanLeaves(d, "super") :
                        /\ a \in (L.sup_ipa + l.child * BlockSize)
                                 ..(L.sup_ipa + (l.child + 1) * BlockSize - 1)
                        /\ r = Hit(L.sup_pa + (a - L.sup_ipa), l.writable,
                                   l.execute \/ (l.writable /\ L.wx_exempt))
  BY <1>2
<1> HIDE DEF img, bas, sup, dev
<1> QED BY <1>1, <1>3, <1>4, <1>5, <1>6

(* A block of the super window, as the range of its addresses and by digits. *)
LEMMA SuperRange ==
    ASSUME NEW L \in Layout, NEW a \in Nat, NEW m \in Idx
    PROVE  a \in (L.sup_ipa + m * BlockSize)..(L.sup_ipa + (m + 1) * BlockSize - 1)
             <=> \E k \in Idx : a = L.sup_ipa + BlockSize * m + k
<1> DEFINE n == BlockSize
           b == L.sup_ipa + n * m
<1>1. n \in Nat \ {0} /\ Idx = 0..(n - 1) /\ m \in Nat /\ L.sup_ipa \in Nat
  BY Geometry DEF Layout
<1> HIDE DEF n
<1>2. m * n = n * m /\ (m + 1) * n = n * m + n /\ n * m \in Nat
  BY <1>1
<1>3. /\ b \in Nat /\ L.sup_ipa + m * n = b /\ L.sup_ipa + (m + 1) * n - 1 = b + n - 1
  BY <1>1, <1>2
<1> HIDE DEF b
<1>4. ASSUME a \in b..(b + n - 1) PROVE \E k \in Idx : a = b + k
  <2>1. a - b \in Idx /\ a = b + (a - b)
    BY <1>1, <1>3, <1>4
  <2> QED BY <2>1
<1>5. ASSUME NEW k \in Idx, a = b + k PROVE a \in b..(b + n - 1)
  BY <1>1, <1>3, <1>5
<1>6. a \in b..(b + n - 1) <=> \E k \in Idx : a = b + k
  BY <1>4, <1>5
<1> QED BY <1>3, <1>6 DEF b, n

(* What a walk of the new tables finds is authorised.                        *)
LEMMA FoundAuthorised ==
    ASSUME layout \in Layout, WellLaid(layout), EntriesSound, NEW d, Representable(d, layout),
           NEW leaves \in LeafMaps(d, "base"), NEW supers \in LeafMaps(d, "super"),
           NEW a \in Nat, a < Addressable, Walk(Encoded(leaves, supers, layout), a) # NoReach
    PROVE  Walk(Encoded(leaves, supers, layout), a) \in Authorised(d, a)
<1> DEFINE L == layout
           r == Walk(Encoded(leaves, supers, L), a)
<1>0. \A span : \A l \in SpanLeaves(d, span) : l \in links
  BY DEF SpanLeaves, LeavesOf
<1>1. \/ FoundImage(r, a, L) \/ FoundDevice(r, a, L)
      \/ \E m : FoundData(r, a, leaves, L, m)
      \/ \E m, k : FoundSuper(r, a, supers, L, m, k)
  BY MapsPlaced, WalkFinds
<1> HIDE DEF r
<1>2. CASE FoundImage(r, a, L) \/ FoundDevice(r, a, L)
  BY <1>2, AuthorisedSays DEF r
<1>3. ASSUME NEW m, FoundData(r, a, leaves, L, m) PROVE r \in Authorised(d, a)
  <2>1. PICK l \in SpanLeaves(d, "base") : l.child = m /\ leaves[m] = PermOf(l)
    BY <1>3, MapSays DEF FoundData
  <2>2. (leaves[m] = "Rw") = l.writable /\ (leaves[m] = "Rx") = l.execute
    BY <1>0, <2>1, PermAccess
  <2>3. a = L.data_ipa + l.child /\ r = Hit(L.data_pa + l.child, l.writable, l.execute)
    BY <1>3, <2>1, <2>2 DEF FoundData
  <2> QED BY <2>3, AuthorisedSays
<1>4. ASSUME NEW m, NEW k, FoundSuper(r, a, supers, L, m, k) PROVE r \in Authorised(d, a)
  <2>1. PICK l \in SpanLeaves(d, "super") : l.child = m /\ supers[m] = PermOf(l)
    BY <1>4, MapSays DEF FoundSuper
  <2>2. (supers[m] = "Rw") = l.writable /\ (supers[m] = "Rx") = l.execute
    BY <1>0, <2>1, PermAccess
  <2>3. /\ m \in Idx /\ k \in Idx /\ a = L.sup_ipa + BlockSize * m + k
        /\ r = Hit(L.sup_pa + BlockSize * m + k, supers[m] = "Rw", SuperX(supers[m], L))
    BY <1>4 DEF FoundSuper
  <2>4. SuperX(supers[m], L) = (l.execute \/ (l.writable /\ L.wx_exempt))
    BY <2>2 DEF SuperX
  <2>5. L.sup_pa + BlockSize * m + k = L.sup_pa + (a - L.sup_ipa)
    <3> DEFINE z == BlockSize * m
    <3>1. L.sup_pa \in Nat /\ L.sup_ipa \in Nat /\ z \in Nat /\ k \in Nat
      BY <2>3, Geometry DEF Layout
    <3> HIDE DEF z
    <3> QED BY <2>3, <3>1 DEF z
  <2>6. a \in (L.sup_ipa + l.child * BlockSize)..(L.sup_ipa + (l.child + 1) * BlockSize - 1)
    BY <2>1, <2>3, SuperRange
  <2>7. r = Hit(L.sup_pa + (a - L.sup_ipa), l.writable, l.execute \/ (l.writable /\ L.wx_exempt))
    BY <2>2, <2>3, <2>4, <2>5
  <2> QED BY <2>6, <2>7, AuthorisedSays
<1> QED BY <1>1, <1>2, <1>3, <1>4 DEF r

(* What is authorised is found.                                              *)
LEMMA AuthorisedFound ==
    ASSUME layout \in Layout, WellLaid(layout), EntriesSound, NEW d, Representable(d, layout),
           NEW leaves \in LeafMaps(d, "base"), NEW supers \in LeafMaps(d, "super"),
           NEW a \in Nat, NEW r \in Authorised(d, a)
    PROVE  Walk(Encoded(leaves, supers, layout), a) # NoReach
<1> DEFINE L == layout
           found == Walk(Encoded(leaves, supers, L), a)
<1>0. \A pa, w, x : Hit(pa, w, x) # NoReach
  <2>1. \A pa, w, x : Hit(pa, w, x).kind = "reach"
    BY DEF Hit
  <2>2. NoReach.kind = "none"
    BY DEF NoReach
  <2> QED BY <2>1, <2>2
<1>1. CASE FoundImage(r, a, L)
  <2>1. found = Hit(a, FALSE, TRUE)
    BY <1>1, WalkImage DEF FoundImage
  <2> QED BY <1>0, <2>1
<1>2. CASE FoundDevice(r, a, L)
  <2>1. found = Hit(a, TRUE, FALSE)
    BY <1>2, WalkDevice DEF FoundDevice
  <2> QED BY <1>0, <2>1
<1>3. ASSUME NEW l \in SpanLeaves(d, "base"), a = L.data_ipa + l.child PROVE found # NoReach
  <2>1. l.child \in Idx /\ leaves[l.child] # "none"
    BY MapSays
  <2>2. found = Hit(L.data_pa + l.child, leaves[l.child] = "Rw", leaves[l.child] = "Rx")
    BY <1>3, <2>1, WalkData
  <2> QED BY <1>0, <2>2
<1>4. ASSUME NEW l \in SpanLeaves(d, "super"),
             a \in (L.sup_ipa + l.child * BlockSize)..(L.sup_ipa + (l.child + 1) * BlockSize - 1)
      PROVE  found # NoReach
  <2>1. l.child \in Idx /\ supers[l.child] # "none" /\ l.child < L.sup_frames
    BY MapSays DEF Representable
  <2>2. PICK k \in Idx : a = L.sup_ipa + BlockSize * l.child + k
    BY <1>4, <2>1, SuperRange
  <2> DEFINE m == l.child
  <2> HIDE DEF m
  <2>4. /\ m \in Idx /\ supers[m] # "none" /\ m < L.sup_frames
        /\ a = L.sup_ipa + BlockSize * m + k
    BY <2>1, <2>2 DEF m
  <2>3. found = Hit(L.sup_pa + BlockSize * m + k, supers[m] = "Rw",
                    supers[m] = "Rx" \/ (supers[m] = "Rw" /\ L.wx_exempt))
    BY <2>4, WalkSuper
  <2> QED BY <1>0, <2>3
<1> HIDE DEF found
<1> QED BY <1>1, <1>2, <1>3, <1>4, AuthorisedSays DEF found

-----------------------------------------------------------------------------
(* The specification.                                                        *)

(* The inductive invariant: the tables are zero or what an encoding into     *)
(* zeroed storage gives, for leaves in their windows, whatever was encoded   *)
(* before; the layout is then one that validate accepted.                    *)
Stage2Inv ==
    /\ layout \in Layout /\ EntriesSound /\ parked # "selftest"
    /\ root = NoDomain => tables = ZeroTables
    /\ root # NoDomain =>
        /\ Validate(layout)
        /\ \E leaves, supers \in LeafMap :
                Placed(leaves, supers, layout) /\ tables = Encoded(leaves, supers, layout)

(* An emission that goes through writes what zeroed storage would get.       *)
EmittedFor(d) ==
    /\ Validate(layout) /\ Representable(d, layout) /\ root' = d
    /\ \E leaves \in LeafMaps(d, "base"), supers \in LeafMaps(d, "super") :
            tables' = Encoded(leaves, supers, layout)

(* An emission goes through or leaves everything as it was and parks; the    *)
(* self-test is never the reason.                                            *)
LEMMA EmitShape ==
    ASSUME Stage2Inv, NEW d \in Dom, Emit(d)
    PROVE  /\ layout' = layout /\ frames' = frames /\ links' = links
           /\ \/ parked' = "no" /\ EmittedFor(d)
              \/ parked' \in {"unrepresentable", "layout"} /\ tables' = tables /\ root' = root
<1>1. layout' = layout /\ frames' = frames /\ links' = links
  BY DEF Emit, p2mVars
<1>2. CASE ~Representable(d, layout)
  BY <1>1, <1>2 DEF Emit
<1>3. CASE Representable(d, layout) /\ ~Validate(layout)
  BY <1>1, <1>3 DEF Emit
<1>4. CASE Representable(d, layout) /\ Validate(layout)
  <2>1. PICK leaves \in LeafMaps(d, "base"), supers \in LeafMaps(d, "super") :
            /\ tables' = Encode(tables, leaves, supers, layout)
            /\ root' = d
            /\ parked' = IF layout.selftest /\ ~VerifyEncoding(tables', leaves, supers, layout)
                         THEN "selftest" ELSE "no"
    BY <1>4 DEF Emit
  <2>2. tables' = Encoded(leaves, supers, layout)
    <3>1. CASE root = NoDomain
      BY <2>1, <3>1 DEF Stage2Inv, Encoded
    <3>2. CASE root # NoDomain
      <4>1. PICK leaves0, supers0 \in LeafMap : tables = Encoded(leaves0, supers0, layout)
        BY <3>2 DEF Stage2Inv
      <4> QED BY <2>1, <4>1, EncodeForgets
    <3> QED BY <3>1, <3>2
  <2>3. leaves \in LeafMap /\ supers \in LeafMap
    BY MapSays DEF Stage2Inv
  <2>4. VerifyEncoding(tables', leaves, supers, layout)
    BY <1>4, <2>2, <2>3, DecoderAgrees DEF Stage2Inv
  <2> QED BY <1>1, <1>4, <2>1, <2>2, <2>4 DEF EmittedFor
<1> QED BY <1>2, <1>3, <1>4

(* A page-table call adds only entries that are writable or executable, not  *)
(* both.                                                                     *)
LEMMA RemapKeepsEntries ==
    ASSUME EntriesSound, P2mNext
    PROVE  EntriesSound'
<1>1. ASSUME NEW d \in Dom, NEW f \in Frame, Allocate(d, f) \/ Unpin(d, f) \/ Release(d, f)
      PROVE  EntriesSound'
  BY <1>1 DEF EntriesSound, Allocate, Unpin, Release
<1>2. ASSUME NEW d \in Dom, NEW f \in Frame, NEW level \in Level, Pin(d, f, level)
      PROVE  EntriesSound'
  BY <1>2 DEF EntriesSound, Pin
<1>3. ASSUME NEW d \in Dom, NEW l \in LinkState, Link(d, l) PROVE EntriesSound'
  BY <1>3 DEF EntriesSound, Link
<1>4. ASSUME NEW d \in Dom, NEW l \in links, Unlink(d, l) PROVE EntriesSound'
  BY <1>4 DEF EntriesSound, Unlink
<1>5. ASSUME NEW d \in Dom, UnlinkAll(d) \/ UnlinkAllInto(d) \/ UnpinAll(d) \/ FreeAll(d)
      PROVE  EntriesSound'
  BY <1>5 DEF EntriesSound, UnlinkAll, UnlinkAllInto, UnpinAll, FreeAll
<1> QED BY <1>1, <1>2, <1>3, <1>4, <1>5 DEF P2mNext

(* The invariant holds at boot.                                              *)
LEMMA Stage2InitInv ==
    ASSUME Stage2Init, P2mInit
    PROVE  Stage2Inv
  BY Stage2Assumption DEF Stage2Init, P2mInit, Stage2Inv, EntriesSound, ZeroTables

(* Page-table calls and emissions keep it.                                   *)
LEMMA Stage2StepInv ==
    ASSUME Stage2Inv, [Remap \/ Publish]_<<p2mVars, s2Vars>>
    PROVE  Stage2Inv'
<1>1. CASE Remap
  <2>1. EntriesSound'
    BY <1>1, RemapKeepsEntries DEF Remap, Stage2Inv
  <2> QED BY <1>1, <2>1 DEF Remap, s2Vars, Stage2Inv
<1>2. CASE Publish
  <2>1. PICK d \in Dom : Emit(d)
    BY <1>2 DEF Publish
  <2>2. /\ layout' = layout /\ frames' = frames /\ links' = links
        /\ \/ parked' = "no" /\ EmittedFor(d)
           \/ parked' \in {"unrepresentable", "layout"} /\ tables' = tables /\ root' = root
    BY <2>1, EmitShape
  <2>3. EntriesSound'
    BY <2>2 DEF Stage2Inv, EntriesSound
  <2>4. CASE parked' = "no" /\ EmittedFor(d)
    <3>1. PICK leaves \in LeafMaps(d, "base"), supers \in LeafMaps(d, "super") :
              tables' = Encoded(leaves, supers, layout)
      BY <2>4 DEF EmittedFor
    <3>2. Placed(leaves, supers, layout)
      BY <2>4, MapsPlaced DEF EmittedFor, Stage2Inv
    <3>3. leaves \in LeafMap /\ supers \in LeafMap
      BY <3>2 DEF Placed
    <3>4. d # NoDomain
      BY DomainsAssumption DEF Dom, NoDomain
    <3> QED BY <2>2, <2>3, <2>4, <3>1, <3>2, <3>3, <3>4 DEF Stage2Inv, EmittedFor
  <2>5. CASE parked' \in {"unrepresentable", "layout"} /\ tables' = tables /\ root' = root
    BY <2>2, <2>3, <2>5 DEF Stage2Inv
  <2> QED BY <2>2, <2>4, <2>5
<1>3. CASE UNCHANGED <<p2mVars, s2Vars>>
  BY <1>3 DEF p2mVars, s2Vars, Stage2Inv, EntriesSound
<1> QED BY <1>1, <1>2, <1>3

(* It holds for every layout, table size and number of frames.               *)
LEMMA Stage2Invariant == Stage2Spec => []Stage2Inv
<1>1. Stage2Init /\ P2mInit => Stage2Inv
  BY Stage2InitInv
<1>2. Stage2Inv /\ [Remap \/ Publish]_<<p2mVars, s2Vars>> => Stage2Inv'
  BY Stage2StepInv
<1> QED BY <1>1, <1>2, PTL DEF Stage2Spec

(* The emitter and its decoder agree on every layout and every history, so   *)
(* the self-test never halts the machine.                                    *)
THEOREM SelftestAlwaysAgrees == Stage2Spec => []SelftestAgrees
<1>1. Stage2Inv => SelftestAgrees
  BY DEF Stage2Inv, SelftestAgrees
<1> QED BY <1>1, Stage2Invariant, PTL

(* A walk of the tables just emitted finds, at every address, what links and *)
(* layout authorise and nothing else, whatever the tables held before.       *)
THEOREM EmissionAlwaysExact == Stage2Spec => EmissionExact
<1> DEFINE Exact == Emitted => \A ipa \in 0..(Addressable - 1) :
                        LET found == Walk(tables', ipa)
                            may   == Authorised(root', ipa)
                        IN  IF may = {} THEN found = NoReach ELSE found \in may
<1>1. Stage2Inv /\ [Remap \/ Publish]_<<p2mVars, s2Vars>> => [Exact]_<<p2mVars, s2Vars>>
  <2> SUFFICES ASSUME Stage2Inv, Remap \/ Publish, Emitted, ~UNCHANGED <<p2mVars, s2Vars>>,
                      NEW a \in 0..(Addressable - 1)
               PROVE  LET found == Walk(tables', a)
                          may   == Authorised(root', a)
                      IN  IF may = {} THEN found = NoReach ELSE found \in may
    OBVIOUS
  <2>1. Publish
    BY DEF Remap, Emitted
  <2>2. PICK d \in Dom : Emit(d)
    BY <2>1 DEF Publish
  <2>3. EmittedFor(d)
    BY <2>2, EmitShape DEF Emitted
  <2>4. PICK leaves \in LeafMaps(d, "base"), supers \in LeafMaps(d, "super") :
            tables' = Encoded(leaves, supers, layout)
    BY <2>3 DEF EmittedFor
  <2>5. layout \in Layout /\ WellLaid(layout) /\ EntriesSound /\ Representable(d, layout) /\ root' = d
    BY <2>3, ValidateWellLaid DEF EmittedFor, Stage2Inv
  <2>6. a \in Nat /\ a < Addressable
    BY Geometry
  <2> DEFINE found == Walk(Encoded(leaves, supers, layout), a)
             may   == Authorised(d, a)
  <2>7. found # NoReach => found \in may
    BY <2>5, <2>6, FoundAuthorised
  <2>8. \A r \in may : found # NoReach
    BY <2>5, <2>6, AuthorisedFound
  <2> HIDE DEF found, may
  <2>9. IF may = {} THEN found = NoReach ELSE found \in may
    BY <2>7, <2>8
  <2> QED BY <2>4, <2>5, <2>9 DEF found, may
<1> QED BY <1>1, Stage2Invariant, PTL DEF Stage2Spec, EmissionExact

(* What the tables reach, one place at a time.                               *)
LEMMA ReachedPlaces ==
    ASSUME Stage2Inv, root # NoDomain
    PROVE  /\ WellLaid(layout)
           /\ \E leaves, supers \in LeafMap :
                \A a \in 0..(Addressable - 1) :
                    LET r == Walk(tables, a)
                    IN  r = NoReach \/ FoundImage(r, a, layout) \/ FoundDevice(r, a, layout)
                        \/ (\E m : FoundData(r, a, leaves, layout, m))
                        \/ (\E m, k : FoundSuper(r, a, supers, layout, m, k))
<1>1. WellLaid(layout)
  BY ValidateWellLaid DEF Stage2Inv
<1>2. PICK leaves, supers \in LeafMap :
          Placed(leaves, supers, layout) /\ tables = Encoded(leaves, supers, layout)
  BY DEF Stage2Inv
<1>3. ASSUME NEW a \in 0..(Addressable - 1), Walk(tables, a) # NoReach
      PROVE  LET r == Walk(tables, a)
             IN  \/ FoundImage(r, a, layout) \/ FoundDevice(r, a, layout)
                 \/ (\E m : FoundData(r, a, leaves, layout, m))
                 \/ (\E m, k : FoundSuper(r, a, supers, layout, m, k))
  <2>1. a \in Nat /\ a < Addressable
    BY Geometry
  <2> QED BY <1>1, <1>2, <1>3, <2>1, WalkFinds DEF Stage2Inv
<1> QED BY <1>1, <1>3

(* Before the first emission nothing is reached.                             *)
LEMMA ZeroReach ==
    ASSUME tables = ZeroTables, NEW a \in Nat, a < Addressable
    PROVE  Walk(tables, a) = NoReach
<1>1. L1Of(a) \in Idx
  BY Digits
<1>2. tables.l1[L1Of(a)] = Dead
  BY <1>1 DEF ZeroTables, DeadTable
<1>3. tables.l1[L1Of(a)].kind # "table"
  BY <1>2 DEF Dead
<1> QED BY <1>3 DEF Walk

(* A page in two windows makes them overlap.                                 *)
LEMMA Disjoint ==
    ASSUME NEW x \in Nat, NEW xlen \in Nat, NEW y \in Nat, NEW ylen \in Nat, NEW p \in Nat,
           Within(p, x, xlen), Within(p, y, ylen)
    PROVE  Overlaps(x, xlen, y, ylen) /\ Overlaps(y, ylen, x, xlen)
  BY DEF Overlaps, Within

(* Where the page is that a walk finds, and how it may be used.              *)
LEMMA FixedPlaces ==
    ASSUME NEW L, NEW a \in Nat, NEW r
    PROVE  /\ FoundImage(r, a, L) =>
                r.pa \in Nat /\ Within(r.pa, L.image, BlockSize) /\ r.w = FALSE
           /\ FoundDevice(r, a, L) =>
                r.pa \in Nat /\ Within(r.pa, L.device, L.device_len) /\ r.x = FALSE
  BY DEF FoundImage, FoundDevice, Hit

(* The same for the page of a base leaf.                                     *)
LEMMA DataPlaces ==
    ASSUME NEW L \in Layout, NEW a, NEW r, NEW leaves, NEW m, FoundData(r, a, leaves, L, m)
    PROVE  /\ r.pa \in Nat /\ Within(r.pa, L.data_pa, BlockSize) /\ r.pa = L.data_pa + m
           /\ r.w = (leaves[m] = "Rw") /\ r.x = (leaves[m] = "Rx")
           /\ m \in Idx /\ m \in Frame /\ m >= L.sup_frames
<1> DEFINE pa == L.data_pa + m
<1>1. /\ m \in Idx /\ m \in Frame /\ m >= L.sup_frames
      /\ r = Hit(pa, leaves[m] = "Rw", leaves[m] = "Rx")
  BY DEF FoundData
<1>2. pa \in Nat /\ Within(pa, L.data_pa, BlockSize)
  BY <1>1, Geometry DEF Layout, Within
<1> HIDE DEF pa
<1>3. r.pa = pa /\ r.w = (leaves[m] = "Rw") /\ r.x = (leaves[m] = "Rx")
  BY <1>1 DEF Hit
<1> QED BY <1>1, <1>2, <1>3 DEF pa

(* The same for a place of a super leaf.                                     *)
LEMMA SuperPlaces ==
    ASSUME NEW L \in Layout, NEW a, NEW r, NEW supers, NEW m, NEW k,
           FoundSuper(r, a, supers, L, m, k)
    PROVE  /\ r.pa \in Nat /\ Within(r.pa, L.sup_pa, L.sup_frames * BlockSize)
           /\ r.pa = L.sup_pa + BlockSize * m + k
           /\ r.w = (supers[m] = "Rw") /\ r.x = SuperX(supers[m], L)
           /\ m \in Idx /\ k \in Idx /\ m \in Frame /\ m < L.sup_frames
<1> DEFINE pa == L.sup_pa + BlockSize * m + k
<1>1. /\ m \in Idx /\ k \in Idx /\ m \in Frame /\ m < L.sup_frames
      /\ r = Hit(pa, supers[m] = "Rw", SuperX(supers[m], L))
  BY DEF FoundSuper
<1>2. m \in Nat
  BY <1>1, Geometry
<1>3. pa \in Nat /\ Within(pa, L.sup_pa, L.sup_frames * BlockSize)
  BY <1>1, <1>2, SuperBacking
<1> HIDE DEF pa
<1>4. r.pa = pa /\ r.w = (supers[m] = "Rw") /\ r.x = SuperX(supers[m], L)
  BY <1>1 DEF Hit
<1> QED BY <1>1, <1>3, <1>4 DEF pa

(* The windows are made of natural numbers and their backings are apart.     *)
LEMMA BackingsApart ==
    ASSUME NEW L \in Layout, WellLaid(L), NEW p \in Nat
    PROVE  LET image == HasImage(L) /\ Within(p, L.image, BlockSize)
               dev   == HasDevice(L) /\ Within(p, L.device, L.device_len)
               data  == Within(p, L.data_pa, BlockSize)
               super == Within(p, L.sup_pa, L.sup_frames * BlockSize)
           IN  /\ ~(image /\ dev) /\ ~(image /\ data) /\ ~(image /\ super)
               /\ ~(dev /\ data) /\ ~(dev /\ super) /\ ~(data /\ super)
<1>1. /\ L.data_pa \in Nat /\ L.sup_pa \in Nat /\ L.device \in Nat /\ L.device_len \in Nat
      /\ HasImage(L) => L.image \in Nat
  BY DEF Layout, HasImage
<1>2. BlockSize \in Nat /\ L.sup_frames * BlockSize \in Nat
  BY Geometry DEF Layout
<1> DEFINE size == L.sup_frames * BlockSize
<1>3. /\ ~Overlaps(L.data_pa, BlockSize, L.sup_pa, size)
      /\ HasImage(L) => ~Overlaps(L.image, BlockSize, L.data_pa, BlockSize)
                        /\ ~Overlaps(L.image, BlockSize, L.sup_pa, size)
      /\ HasDevice(L) => ~Overlaps(L.device, L.device_len, L.data_pa, BlockSize)
                         /\ ~Overlaps(L.device, L.device_len, L.sup_pa, size)
      /\ HasImage(L) /\ HasDevice(L) => ~Overlaps(L.image, BlockSize, L.device, L.device_len)
  BY DEF WellLaid
<1>4. size \in Nat
  BY <1>2
<1> HIDE DEF size
<1>5. /\ ~(HasImage(L) /\ Within(p, L.image, BlockSize) /\ HasDevice(L) /\ Within(p, L.device, L.device_len))
      /\ ~(HasImage(L) /\ Within(p, L.image, BlockSize) /\ Within(p, L.data_pa, BlockSize))
      /\ ~(HasImage(L) /\ Within(p, L.image, BlockSize) /\ Within(p, L.sup_pa, size))
  BY <1>1, <1>2, <1>3, <1>4, Disjoint
<1>6. /\ ~(HasDevice(L) /\ Within(p, L.device, L.device_len) /\ Within(p, L.data_pa, BlockSize))
      /\ ~(HasDevice(L) /\ Within(p, L.device, L.device_len) /\ Within(p, L.sup_pa, size))
      /\ ~(Within(p, L.data_pa, BlockSize) /\ Within(p, L.sup_pa, size))
  BY <1>1, <1>2, <1>3, <1>4, Disjoint
<1> QED BY <1>5, <1>6 DEF size

(* Base leaves have one permission per frame, super leaves too, and no page  *)
(* backs two windows: so what is written is not executed.                    *)
LEMMA WriteXorExecuteHolds ==
    ASSUME Stage2Inv
    PROVE  WriteXorExecute
<1> SUFFICES ASSUME ~layout.wx_exempt,
                    NEW a \in 0..(Addressable - 1), Walk(tables, a) # NoReach, Walk(tables, a).w,
                    NEW b \in 0..(Addressable - 1), Walk(tables, b) # NoReach, Walk(tables, b).x,
                    Walk(tables, a).pa = Walk(tables, b).pa
             PROVE  FALSE
  BY DEF WriteXorExecute, Reached
<1> DEFINE L == layout
           r == Walk(tables, a)
           s == Walk(tables, b)
<1>1. a \in Nat /\ b \in Nat /\ a < Addressable
  BY Geometry
<1>2. root # NoDomain
  BY <1>1, ZeroReach DEF Stage2Inv
<1>3. L \in Layout /\ WellLaid(L)
  BY <1>2, ReachedPlaces DEF Stage2Inv
<1>4. PICK leaves, supers \in LeafMap :
          \A c \in 0..(Addressable - 1) :
              LET f == Walk(tables, c)
              IN  f = NoReach \/ FoundImage(f, c, L) \/ FoundDevice(f, c, L)
                  \/ (\E m : FoundData(f, c, leaves, L, m))
                  \/ (\E m, k : FoundSuper(f, c, supers, L, m, k))
  BY <1>2, ReachedPlaces
<1>5. \/ FoundImage(r, a, L) \/ FoundDevice(r, a, L)
      \/ (\E m : FoundData(r, a, leaves, L, m)) \/ (\E m, k : FoundSuper(r, a, supers, L, m, k))
  BY <1>4
<1>6. \/ FoundImage(s, b, L) \/ FoundDevice(s, b, L)
      \/ (\E m : FoundData(s, b, leaves, L, m)) \/ (\E m, k : FoundSuper(s, b, supers, L, m, k))
  BY <1>4
<1>7. r.w /\ s.x /\ r.pa = s.pa
  OBVIOUS
<1> HIDE DEF r, s, L
<1> DEFINE p == r.pa
           image == HasImage(L) /\ Within(p, L.image, BlockSize)
           dev   == HasDevice(L) /\ Within(p, L.device, L.device_len)
           data  == Within(p, L.data_pa, BlockSize)
           super == Within(p, L.sup_pa, L.sup_frames * BlockSize)
<1>8. /\ p \in Nat
      /\ \/ dev
         \/ data /\ \E m \in Idx : p = L.data_pa + m /\ leaves[m] = "Rw"
         \/ super /\ \E m, k \in Idx : m < L.sup_frames /\ p = L.sup_pa + BlockSize * m + k /\ supers[m] = "Rw"
  <2>1. CASE FoundImage(r, a, L)
    BY <1>1, <1>3, <1>7, <2>1, FixedPlaces
  <2>2. CASE FoundDevice(r, a, L)
    BY <1>1, <1>3, <2>2, FixedPlaces DEF FoundDevice
  <2>3. CASE \E m : FoundData(r, a, leaves, L, m)
    <3>1. PICK m : FoundData(r, a, leaves, L, m)
      BY <2>3
    <3>2. r.pa \in Nat /\ data /\ r.pa = L.data_pa + m /\ r.w = (leaves[m] = "Rw")
      BY <1>1, <1>3, <3>1, DataPlaces
    <3>3. m \in Idx
      BY <3>1 DEF FoundData
    <3> QED BY <1>7, <3>2, <3>3
  <2>4. CASE \E m, k : FoundSuper(r, a, supers, L, m, k)
    <3>1. PICK m, k : FoundSuper(r, a, supers, L, m, k)
      BY <2>4
    <3>2. r.pa \in Nat /\ super /\ r.pa = L.sup_pa + BlockSize * m + k /\ r.w = (supers[m] = "Rw")
      BY <1>1, <1>3, <3>1, SuperPlaces
    <3>3. m \in Idx /\ k \in Idx /\ m < L.sup_frames
      BY <3>1 DEF FoundSuper
    <3> QED BY <1>7, <3>2, <3>3
  <2> QED BY <1>5, <2>1, <2>2, <2>3, <2>4
<1>9. \/ image
      \/ data /\ \E m \in Idx : p = L.data_pa + m /\ leaves[m] = "Rx"
      \/ super /\ \E m, k \in Idx : m < L.sup_frames /\ p = L.sup_pa + BlockSize * m + k /\ supers[m] = "Rx"
  <2>1. CASE FoundImage(s, b, L)
    BY <1>1, <1>3, <1>7, <2>1, FixedPlaces DEF FoundImage
  <2>2. CASE FoundDevice(s, b, L)
    BY <1>1, <1>3, <1>7, <2>2, FixedPlaces
  <2>3. CASE \E m : FoundData(s, b, leaves, L, m)
    <3>1. PICK m : FoundData(s, b, leaves, L, m)
      BY <2>3
    <3>2. Within(s.pa, L.data_pa, BlockSize) /\ s.pa = L.data_pa + m /\ s.x = (leaves[m] = "Rx")
      BY <1>1, <1>3, <3>1, DataPlaces
    <3>3. m \in Idx
      BY <3>1 DEF FoundData
    <3> QED BY <1>7, <3>2, <3>3
  <2>4. CASE \E m, k : FoundSuper(s, b, supers, L, m, k)
    <3>1. PICK m, k : FoundSuper(s, b, supers, L, m, k)
      BY <2>4
    <3>2. /\ Within(s.pa, L.sup_pa, L.sup_frames * BlockSize) /\ s.pa = L.sup_pa + BlockSize * m + k
          /\ s.x = SuperX(supers[m], L)
      BY <1>1, <1>3, <3>1, SuperPlaces
    <3>3. m \in Idx /\ k \in Idx /\ m < L.sup_frames
      BY <3>1 DEF FoundSuper
    <3>4. supers[m] = "Rx"
      BY <1>7, <3>2 DEF SuperX, L
    <3> QED BY <1>7, <3>2, <3>3, <3>4
  <2> QED BY <1>6, <2>1, <2>2, <2>3, <2>4
<1>10. /\ ~(image /\ dev) /\ ~(image /\ data) /\ ~(image /\ super)
       /\ ~(dev /\ data) /\ ~(dev /\ super) /\ ~(data /\ super)
  BY <1>3, <1>8, BackingsApart
<1> HIDE DEF p, image, dev, data, super
<1>11. CASE data
  <2>1. PICK m \in Idx : p = L.data_pa + m /\ leaves[m] = "Rw"
    BY <1>8, <1>10, <1>11
  <2>2. PICK j \in Idx : p = L.data_pa + j /\ leaves[j] = "Rx"
    BY <1>9, <1>10, <1>11
  <2>3. L.data_pa \in Nat /\ m \in Nat /\ j \in Nat
    BY <1>3, Geometry DEF Layout
  <2>4. m = j
    BY <2>1, <2>2, <2>3
  <2> QED BY <2>1, <2>2, <2>4
<1>12. CASE super
  <2>1. PICK m, k \in Idx : m < L.sup_frames /\ p = L.sup_pa + BlockSize * m + k /\ supers[m] = "Rw"
    BY <1>8, <1>10, <1>12
  <2>2. PICK j, i \in Idx : p = L.sup_pa + BlockSize * j + i /\ supers[j] = "Rx"
    BY <1>9, <1>10, <1>12
  <2>3. m \in Nat /\ j \in Nat
    BY Geometry
  <2>4. m = j
    BY <1>3, <2>1, <2>2, <2>3, SuperBacking
  <2> QED BY <2>1, <2>2, <2>4
<1> QED BY <1>8, <1>9, <1>10, <1>11, <1>12

(* No physical page is writable at one address and executable at the same or *)
(* another, unless the build exempts super frames.                           *)
THEOREM WriteXorExecuteAlways == Stage2Spec => []WriteXorExecute
<1>1. Stage2Inv => WriteXorExecute
  BY WriteXorExecuteHolds
<1> QED BY <1>1, Stage2Invariant, PTL

(* A page a domain can write outside the device is scrubbed with one frame   *)
(* and is not the image.                                                     *)
LEMMA ScrubCoversHolds ==
    ASSUME Stage2Inv
    PROVE  ScrubCovers
<1> DEFINE L == layout
           memory == {r.pa : r \in {s \in {Walk(tables, ipa) : ipa \in 0..(Addressable - 1)} :
                                      s # NoReach /\ s.w}}
                     \ (L.device..(L.device + L.device_len - 1))
           image  == IF L.image = NoImage THEN {} ELSE L.image..(L.image + BlockSize - 1)
<1> SUFFICES ASSUME root # NoDomain, NEW p \in memory
             PROVE  p \notin image /\ Cardinality({m \in Frame : p \in ScrubRange(L, m)}) = 1
  BY DEF ScrubCovers, Reached
<1>0. PICK a \in 0..(Addressable - 1) :
          p = Walk(tables, a).pa /\ Walk(tables, a) # NoReach /\ Walk(tables, a).w
  OBVIOUS
<1> DEFINE r == Walk(tables, a)
<1>1. a \in Nat /\ a < Addressable
  BY Geometry
<1>2. L \in Layout /\ WellLaid(L)
  BY ReachedPlaces DEF Stage2Inv
<1>3. PICK leaves, supers \in LeafMap :
          \/ FoundImage(r, a, L) \/ FoundDevice(r, a, L)
          \/ (\E m : FoundData(r, a, leaves, L, m)) \/ (\E m, k : FoundSuper(r, a, supers, L, m, k))
  <2>1. PICK leaves, supers \in LeafMap :
            \A c \in 0..(Addressable - 1) :
                LET f == Walk(tables, c)
                IN  f = NoReach \/ FoundImage(f, c, L) \/ FoundDevice(f, c, L)
                    \/ (\E m : FoundData(f, c, leaves, L, m))
                    \/ (\E m, k : FoundSuper(f, c, supers, L, m, k))
    BY ReachedPlaces
  <2> QED BY <1>0, <2>1
<1>4. r.w /\ p \notin L.device..(L.device + L.device_len - 1) /\ p = r.pa
  BY <1>0
<1> HIDE DEF r, L
<1>5. ~FoundImage(r, a, L)
  BY <1>1, <1>2, <1>4, FixedPlaces
<1>6. ~FoundDevice(r, a, L)
  <2> SUFFICES ASSUME FoundDevice(r, a, L) PROVE FALSE
    OBVIOUS
  <2>1. p \in Nat /\ Within(p, L.device, L.device_len)
    BY <1>1, <1>4, FixedPlaces
  <2>2. L.device \in Nat /\ L.device_len \in Nat
    BY <1>2 DEF Layout
  <2> QED BY <1>4, <2>1, <2>2 DEF Within
<1>7. PICK m \in Frame :
        /\ p \in Nat
        /\ Within(p, L.data_pa, BlockSize) \/ Within(p, L.sup_pa, L.sup_frames * BlockSize)
        /\ \/ m >= L.sup_frames /\ p = L.data_pa + m
           \/ m < L.sup_frames /\ \E k \in Idx : p = L.sup_pa + BlockSize * m + k
  <2>1. CASE \E m : FoundData(r, a, leaves, L, m)
    <3>1. PICK m : FoundData(r, a, leaves, L, m)
      BY <2>1
    <3>2. r.pa \in Nat /\ Within(r.pa, L.data_pa, BlockSize) /\ r.pa = L.data_pa + m
      BY <1>1, <1>2, <3>1, DataPlaces
    <3>3. m \in Frame /\ m >= L.sup_frames
      BY <3>1 DEF FoundData
    <3> QED BY <1>4, <3>2, <3>3
  <2>2. CASE \E m, k : FoundSuper(r, a, supers, L, m, k)
    <3>1. PICK m, k : FoundSuper(r, a, supers, L, m, k)
      BY <2>2
    <3>2. /\ r.pa \in Nat /\ Within(r.pa, L.sup_pa, L.sup_frames * BlockSize)
          /\ r.pa = L.sup_pa + BlockSize * m + k
      BY <1>1, <1>2, <3>1, SuperPlaces
    <3>3. m \in Frame /\ m < L.sup_frames /\ k \in Idx
      BY <3>1 DEF FoundSuper
    <3> QED BY <1>4, <3>2, <3>3
  <2> QED BY <1>3, <1>5, <1>6, <2>1, <2>2
<1>8. p \notin image
  <2> SUFFICES ASSUME HasImage(L), p \in L.image..(L.image + BlockSize - 1) PROVE FALSE
    BY DEF HasImage
  <2>1. L.image \in Nat /\ BlockSize \in Nat
    BY <1>2, Geometry DEF Layout, HasImage
  <2>2. Within(p, L.image, BlockSize)
    BY <1>7, <2>1 DEF Within
  <2> QED BY <1>2, <1>7, <2>2, BackingsApart
<1>9. {f \in Frame : p \in ScrubRange(L, f)} = {m}
  BY <1>2, <1>7, ScrubUnique
<1>10. Cardinality({f \in Frame : p \in ScrubRange(L, f)}) = 1
  BY <1>9, FS_Singleton
<1> QED BY <1>8, <1>10 DEF L

(* Every page a domain can write outside the device window lies in the scrub *)
(* range of exactly one frame, and never in the shared image.                *)
THEOREM ScrubAlwaysCovers == Stage2Spec => []ScrubCovers
<1>1. Stage2Inv => ScrubCovers
  BY ScrubCoversHolds
<1> QED BY <1>1, Stage2Invariant, PTL
=============================================================================
