SPECIFICATION ChannelSpec
CONSTANTS
  Tasks = {1, 2}
  Users = {user}
  Monitor = monitor
  Reload = reload
  MaxRestarts = 1
  Hooks = {TRUE, FALSE}
  NoTask = NoTask
INVARIANTS EntriesSound Tracked StopHeld
PROPERTY AlwaysBack
