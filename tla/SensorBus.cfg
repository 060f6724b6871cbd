CONSTANTS
    imu = imu
    adc = adc
    acc = acc
    gyro = gyro
    mag = mag
    ads = ads
    lsb = lsb
    msb = msb
    Client = {imu, adc}
    Device = {acc, gyro, mag, ads}
    Register = {lsb, msb}
    NoClient = NoClient
    NoDevice = NoDevice
    Undefined = Undefined
    Busy = {ads}
    MaxShifts = 2
SPECIFICATION BusSpec
INVARIANTS GoodCallMovedItsRegister ReadingsSound
