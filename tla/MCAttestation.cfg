SPECIFICATION AllSpec
CONSTANTS
  Prime = 13
  CoeffA = 0
  CoeffB = 7
  Order = 7
  Generator <- MCGenerator
  Members = {1, 3, 4}
  Guilds = {"guild", "zero"}
  GuildHash <- MCGuildHash
  Hashes = {0, 3}
  MaxRing = 3
  Exps = {4}
  Qs = {0, 3}
  Alphas = {0, 1, 3, 4, 6}
  Offsets = {0, 5}
  Levels = {1, 2, 3}
  Masks <- MCMasks
  ExpMask = 5
  Values = {0, 1, 3, 5}
  Draws <- MCDraws
  Sums <- MCSums
  Keys = {1, 3}
  MaxMembers = 3
  KeyMasks <- MCKeyMasks
  MaxPoints = 3
  Ys = {0, 3}
  CoordBytes = 2
  Bytes = {4, 9}
  Modulus = 2311
  MaxEntries = 2
INVARIANTS
  AttestsSignature
  MemberAccepted
  MembersProve
  OtherRingsRefused
  InterpolationCorrect
  RingsAreTheKeys
  ExponentsProve
  EvenBitsDecide
  CommitmentProofsDecide
CHECK_DEADLOCK FALSE
