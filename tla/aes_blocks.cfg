\* The schedules of thirteen keys, and blocks one, four and eight at a time,
\* on both back ends.
SPECIFICATION Spec
CONSTANTS
  Builds = {"aarch64", "x86"}
  CipherKeys <- AllKeys
  SubByte <- SBox
  Widths = {1, 4, 8}
INVARIANT TypeOK
INVARIANT ScheduleIsFips
INVARIANT CipherIsFips
