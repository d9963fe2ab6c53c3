SPECIFICATION SocketSpec
CONSTANTS
  Sockets = {1, 2, 3}
  MaxSurplus = 2
  MaxStops = 2
INVARIANTS NeverStranded OneSocket
PROPERTY Reconnects
