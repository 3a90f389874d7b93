SPECIFICATION FairSpec
CONSTANT Guests <- AllGuests
INVARIANTS
  CausesAnnounced
  NothingStalls
  AudioFollowsPlay
PROPERTIES
  ResponseKept
  ReadsWhenAsked
  CommandsAnswered
  DriveRecovers
